---- MODULE Spec2Model ----
(***************************************************************************)
(* State-machine model of the voice agents' session records and their     *)
(* JSON persistence (backend/src/agents).  One session instantiates one   *)
(* agent class; its tool functions are the actions.                       *)
(***************************************************************************)
EXTENDS Integers, Sequences, FiniteSets, TLC

VARIABLES
    agent,              \* agent class instantiated by the session
    room,               \* Agent._room is set (set_room was called)
    call,               \* the tool call that ran last: [op, arg]
    ret,                \* what that call returned to the caller
    emitted,            \* payloads that call published on the data channel
    fraud_case,         \* FraudAlertAgent.fraud_case (FraudCaseState)
    case_loaded,        \* FraudAlertAgent.case_loaded
    fraud_cases_file,   \* shared-data/fraud_cases.json
    cart,               \* FoodOrderingAgent.cart (CartState)
    orders_dir,         \* the order files under orders/
    wellness_state,     \* HealthWellnessCompanion.wellness_state (WellnessState)
    wellness_log_file,  \* shared-data/wellness_log.json
    lead_state,         \* SDRAgent.lead_state (LeadState)
    leads_file,         \* shared-data/leads_sample.json
    sessions,           \* worker processes completing a record on the same log file
    publish_raises,     \* local_participant.publish_data raises when it is called
    story_state,        \* GameMasterAgent.story_state
    cart_items,         \* CommerceAgent.cart_items
    order_manager,      \* CommerceAgent.order_manager (OrderManager) and its orders/ files
    current_mode,       \* TutorCoordinatorAgent.current_mode
    current_concept,    \* TutorCoordinatorAgent.current_concept
    tutor_content,      \* TutorCoordinatorAgent.tutor_content.concepts
    improv_state        \* ImprovBattleAgent.improv_state

fraudVars == <<fraud_case, case_loaded, fraud_cases_file>>
foodVars == <<cart, orders_dir>>
wellnessVars == <<wellness_state, wellness_log_file>>
leadVars == <<lead_state, leads_file>>
storyVars == <<story_state>>
commerceVars == <<cart_items, order_manager>>
tutorVars == <<current_mode, current_concept, tutor_content>>
improvVars == <<improv_state>>
vars == <<agent, room, call, ret, emitted, fraudVars, foodVars, wellnessVars, leadVars,
          sessions, publish_raises, storyVars, commerceVars, tutorVars, improvVars>>

\* what the tools of one agent leave alone
fraudFrame ==
    <<agent, room, foodVars, wellnessVars, leadVars, sessions, publish_raises, storyVars, commerceVars, tutorVars, improvVars>>
foodFrame ==
    <<agent, room, fraudVars, wellnessVars, leadVars, sessions, publish_raises, storyVars, commerceVars, tutorVars, improvVars>>
wellnessFrame ==
    <<agent, room, fraudVars, foodVars, leadVars, sessions, publish_raises, storyVars, commerceVars, tutorVars, improvVars>>
storyFrame ==
    <<agent, room, fraudVars, foodVars, wellnessVars, leadVars, sessions, publish_raises,
      commerceVars, tutorVars, improvVars>>
commerceFrame ==
    <<agent, room, fraudVars, foodVars, wellnessVars, leadVars, sessions, publish_raises,
      storyVars, tutorVars, improvVars>>
leadFrame ==
    <<agent, room, fraudVars, foodVars, wellnessVars, sessions, publish_raises, storyVars, commerceVars, tutorVars, improvVars>>

----------------------------------------------------------------------------
(* Bounds *)
MaxStrLen == 2
NumCases == 2
MaxItems == 3
MaxOrders == 1
MaxEntries == 2
NumSessions == 2
MaxQuestions == 2
MaxEvents == 3
MaxCartItems == 2
NumScenarios == 2

----------------------------------------------------------------------------
(* Python values.  A str is a sequence of one-character strings; an       *)
(* Optional[T] is <<>> for None and <<v>> for a value v.                  *)
Alphabet == {"a", "A", " "}
Str == UNION {[1..n -> Alphabet] : n \in 0..MaxStrLen}

None == <<>>
Some(v) == <<v>>

\* Python truthiness of an Optional[str]: None and "" are false
Truthy(x) == x # None /\ x # Some(<<>>)

UpperToLower ==
    [A |-> "a", B |-> "b", C |-> "c", D |-> "d", E |-> "e", F |-> "f", G |-> "g",
     H |-> "h", I |-> "i", J |-> "j", K |-> "k", L |-> "l", M |-> "m", N |-> "n",
     O |-> "o", P |-> "p", Q |-> "q", R |-> "r", S |-> "s", T |-> "t", U |-> "u",
     V |-> "v", W |-> "w", X |-> "x", Y |-> "y", Z |-> "z"]
LowerChar(c) == IF c \in DOMAIN UpperToLower THEN UpperToLower[c] ELSE c
Lower(s) == [i \in 1..Len(s) |-> LowerChar(s[i])]

RECURSIVE LStrip(_)
LStrip(s) == IF s # <<>> /\ Head(s) = " " THEN LStrip(Tail(s)) ELSE s
RECURSIVE RStrip(_)
RStrip(s) == IF s # <<>> /\ s[Len(s)] = " " THEN RStrip(SubSeq(s, 1, Len(s) - 1)) ELSE s
Strip(s) == RStrip(LStrip(s))

\* the data channel takes every publish and the session has neither a game
\* master nor a commerce agent
\* the session has neither a tutor nor an improv host
TutorIdle == current_mode = None /\ current_concept = None /\ tutor_content = None
ImprovIdle == improv_state = None

OtherAgentsIdle ==
    /\ publish_raises = FALSE
    /\ story_state = None
    /\ cart_items = None
    /\ order_manager = None
    /\ TutorIdle
    /\ ImprovIdle

----------------------------------------------------------------------------
(* Fraud alert agent *)

FraudCaseState ==
    [user_name |-> None, security_answer |-> None, card_ending |-> None,
     status |-> "pending_review", outcome |-> None,
     verification_passed |-> FALSE, user_confirmed_transaction |-> None]

FraudToDict(fc) ==
    [userName |-> fc.user_name, cardEnding |-> fc.card_ending,
     securityAnswer |-> fc.security_answer,
     status |-> fc.status, outcome |-> fc.outcome]

\* publish_data of _send_fraud_update: nothing is published without a room, and
\* an exception of publish_data is caught and logged
SendFraudUpdate(fc) ==
    IF room /\ ~publish_raises THEN <<[type |-> "fraud_update", data |-> FraudToDict(fc)]>> ELSE <<>>

\* _load_fraud_cases: the list under 'fraud_cases', [] when the file is
\* absent or cannot be read
LoadFraudCases(file) == IF file.readable THEN file.cases ELSE <<>>

\* _save_fraud_cases: overwrite the file; a failed write is only logged
SaveFraudCases(file, cases) ==
    IF file.writable THEN [file EXCEPT !.readable = TRUE, !.cases = cases] ELSE file

\* index of the first case whose userName equals name case-insensitively, 0 if none
FirstMatchCaseSensitive(cases, name) ==
    LET hits == {i \in 1..Len(cases) : cases[i].userName = name}
    IN  IF hits = {} THEN 0 ELSE CHOOSE i \in hits : \A j \in hits : i <= j
FirstMatch(cases, name) ==
    LET hits == {i \in 1..Len(cases) : Lower(cases[i].userName) = Lower(name)}
    IN  IF hits = {} THEN 0 ELSE CHOOSE i \in hits : \A j \in hits : i <= j

UpdateCaseInDatabaseStatusOnly(file, fc) ==
    LET cases == LoadFraudCases(file)
        i == FirstMatch(cases, fc.user_name[1])
        updated == IF i = 0 THEN cases ELSE [cases EXCEPT ![i].status = fc.status]
    IN  SaveFraudCases(file, updated)
UpdateCaseInDatabase(file, fc) ==
    LET cases == LoadFraudCases(file)
        i == FirstMatch(cases, fc.user_name[1])
        updated == IF i = 0 THEN cases
                   ELSE [cases EXCEPT ![i].status = fc.status, ![i].outcome = fc.outcome]
    IN  SaveFraudCases(file, updated)

\* line 181: the comparison of the supplied answer with the stored one
AnswerMatchesLockout(answer, fc) ==
    /\ fc.status # "verification_failed"
    /\ Strip(Lower(answer)) = Strip(Lower(fc.security_answer[1]))
AnswerMatchesExact(answer, fc) == Lower(answer) = Lower(fc.security_answer[1])
AnswerMatches(answer, fc) ==
    Strip(Lower(answer)) = Strip(Lower(fc.security_answer[1]))

\* line 206: the guard of record_transaction_confirmation
ConfirmationRefusedUnlessLoaded(fc) == fc.user_name = None
ConfirmationRefused(fc) == ~fc.verification_passed

load_fraud_case_by_username(user_name) ==
    /\ agent = "fraud"
    /\ call' = [op |-> "load_fraud_case_by_username", arg |-> user_name]
    /\ LET cases == LoadFraudCases(fraud_cases_file)
           i == FirstMatch(cases, user_name)
       IN  IF i = 0
           THEN /\ ret' = "not_found"
                /\ emitted' = <<>>
                /\ UNCHANGED fraudVars
           ELSE LET fc == [fraud_case EXCEPT
                             !.user_name = Some(cases[i].userName),
                             !.card_ending = Some(cases[i].cardEnding),
                             !.security_answer = Some(cases[i].securityAnswer),
                             !.status = cases[i].status]
                IN  /\ fraud_case' = fc
                    /\ case_loaded' = TRUE
                    /\ emitted' = SendFraudUpdate(fc)
                    /\ ret' = "case_pulled_up"
                    /\ UNCHANGED fraud_cases_file
    /\ UNCHANGED fraudFrame

\* lines 177-178: the fraud case a verification without a loaded case leaves
RefusedVerificationRecorded(fc) ==
    [fc EXCEPT !.status = "verification_failed", !.outcome = Some("failed_verification")]
RefusedVerification(fc) == fc

verify_customer_identity(answer) ==
    /\ agent = "fraud"
    /\ call' = [op |-> "verify_customer_identity", arg |-> answer]
    /\ IF ~case_loaded
       THEN /\ ret' = "load_first"
            /\ emitted' = <<>>
            /\ fraud_case' = RefusedVerification(fraud_case)
            /\ UNCHANGED <<case_loaded, fraud_cases_file>>
       ELSE IF AnswerMatches(answer, fraud_case)
       THEN LET fc == [fraud_case EXCEPT !.verification_passed = TRUE]
            IN  /\ fraud_case' = fc
                /\ emitted' = SendFraudUpdate(fc)
                /\ ret' = "verified"
                /\ UNCHANGED <<case_loaded, fraud_cases_file>>
       ELSE LET fc == [fraud_case EXCEPT
                         !.verification_passed = FALSE,
                         !.status = "verification_failed",
                         !.outcome = Some("failed_verification")]
            IN  /\ fraud_case' = fc
                /\ fraud_cases_file' = UpdateCaseInDatabase(fraud_cases_file, fc)
                /\ emitted' = SendFraudUpdate(fc)
                /\ ret' = "cannot_proceed"
                /\ UNCHANGED case_loaded
    /\ UNCHANGED fraudFrame

record_transaction_confirmation(customer_made_transaction) ==
    /\ agent = "fraud"
    /\ call' = [op |-> "record_transaction_confirmation", arg |-> customer_made_transaction]
    /\ IF ConfirmationRefused(fraud_case)
       THEN /\ ret' = "verify_first"
            /\ emitted' = <<>>
            /\ UNCHANGED fraudVars
       ELSE LET fc == [fraud_case EXCEPT
                         !.user_confirmed_transaction = Some(customer_made_transaction),
                         !.status = IF customer_made_transaction
                                    THEN "confirmed_safe" ELSE "confirmed_fraud",
                         !.outcome = IF customer_made_transaction
                                     THEN Some("legitimate") ELSE Some("card_blocked")]
            IN  /\ fraud_case' = fc
                /\ fraud_cases_file' = UpdateCaseInDatabase(fraud_cases_file, fc)
                /\ emitted' = SendFraudUpdate(fc)
                /\ ret' = IF customer_made_transaction THEN "marked_legitimate" ELSE "card_blocked"
                /\ UNCHANGED case_loaded
    /\ UNCHANGED fraudFrame

\* the stored cases the session may start from
StoreNames == {<<"a">>, <<"A">>, <<"a", "a">>}
StoreAnswers == <<<<"a">>, <<" ", "A">>, <<"A", "a">>>>
FraudCase(i, name) ==
    [userName |-> name, securityAnswer |-> StoreAnswers[((i - 1) % Len(StoreAnswers)) + 1],
     cardEnding |-> i, status |-> "pending_review", outcome |-> None]
InitialFraudCases ==
    {[i \in 1..NumCases |-> FraudCase(i, names[i])] : names \in [1..NumCases -> StoreNames]}

FraudInit ==
    /\ fraud_case = FraudCaseState
    /\ case_loaded = FALSE
    /\ fraud_cases_file \in
         {[readable |-> TRUE, writable |-> TRUE, cases |-> cs] : cs \in InitialFraudCases}

FraudNext ==
    \/ \E user_name \in Str : load_fraud_case_by_username(user_name)
    \/ \E answer \in Str : verify_customer_identity(answer)
    \/ \E b \in BOOLEAN : record_transaction_confirmation(b)

----------------------------------------------------------------------------
(* Food ordering agent *)

\* s occurs in t (Python's "s in t")
Contains(s, t) == \E i \in 1..(Len(t) - Len(s) + 1) : SubSeq(t, i, i + Len(s) - 1) = s

RECURSIVE SumOver(_, _)
SumOver(f, items) == IF items = <<>> THEN 0 ELSE f[1] + SumOver(Tail(f), Tail(items))

CartState ==
    [items |-> <<>>, customer_name |-> None, customer_address |-> None,
     order_complete |-> FALSE]

\* position of the first line with this id and these notes, 0 if none
FirstLineIgnoringNotes(items, item, notes) ==
    LET hits == {i \in 1..Len(items) : items[i].id = item.id}
    IN  IF hits = {} THEN 0 ELSE CHOOSE i \in hits : \A j \in hits : i <= j
FirstLine(items, item, notes) ==
    LET hits == {i \in 1..Len(items) : items[i].id = item.id /\ items[i].notes = notes}
    IN  IF hits = {} THEN 0 ELSE CHOOSE i \in hits : \A j \in hits : i <= j

\* CartState.add_item
AddItem(items, item, quantity, notes) ==
    LET i == FirstLine(items, item, notes)
    IN  IF i # 0
        THEN [items EXCEPT ![i].quantity = @ + quantity]
        ELSE Append(items, [id |-> item.id, name |-> item.name, category |-> item.category,
                            brand |-> item.brand, tags |-> item.tags, price |-> item.price,
                            quantity |-> quantity, notes |-> notes,
                            subtotal |-> item.price * quantity])

\* CartState.remove_item
RemoveItem(items, item_id) == SelectSeq(items, LAMBDA it : it.id # item_id)

\* CartState.update_quantity
UpdateQuantityDroppingFirstLine(items, item_id, new_quantity) ==
    LET hits == {i \in 1..Len(items) : items[i].id = item_id}
    IN  IF hits = {} THEN items
        ELSE LET i == CHOOSE i \in hits : \A j \in hits : i <= j
             IN  IF new_quantity <= 0
                 THEN [k \in 1..(Len(items) - 1) |-> IF k < i THEN items[k] ELSE items[k + 1]]
                 ELSE [items EXCEPT ![i].quantity = new_quantity,
                                    ![i].subtotal = items[i].price * new_quantity]
UpdateQuantity(items, item_id, new_quantity) ==
    LET hits == {i \in 1..Len(items) : items[i].id = item_id}
    IN  IF hits = {} THEN items
        ELSE IF new_quantity <= 0 THEN RemoveItem(items, item_id)
        ELSE LET i == CHOOSE i \in hits : \A j \in hits : i <= j
             IN  [items EXCEPT ![i].quantity = new_quantity,
                               ![i].subtotal = items[i].price * new_quantity]

\* CartState.get_total and get_item_count
GetTotal(items) == SumOver([i \in 1..Len(items) |-> items[i].subtotal], items)
GetItemCount(items) == SumOver([i \in 1..Len(items) |-> items[i].quantity], items)

CartToDict(c) ==
    [items |-> c.items, customer_name |-> c.customer_name,
     customer_address |-> c.customer_address, total |-> GetTotal(c.items),
     item_count |-> GetItemCount(c.items), order_complete |-> c.order_complete]

\* a completing call publishes its *_complete event first and the update of the
\* state second (food_agent.py:458-481, wellness_agent.py:251-267,
\* sdr_agent.py:382-398)
CompletionMessagesUpdateFirst(event, update) == update \o event
CompletionMessages(event, update) == event \o update

SendCartUpdate(c) ==
    IF room /\ ~publish_raises THEN <<[type |-> "cart_update", data |-> CartToDict(c)]>> ELSE <<>>

\* shared-data/food_catalog.json after _flatten_items; prices in cents
Catalog ==
    <<[id |-> "bread", name |-> <<"a">>, category |-> <<" ", " ">>, brand |-> <<>>,
       tags |-> <<>>, price |-> 3],
      [id |-> "milk", name |-> <<"A", "a">>, category |-> <<>>, brand |-> <<>>,
       tags |-> << <<"a", "A">> >>, price |-> 5]>>

\* FoodCatalog.search_items
SearchItems(catalog, query) ==
    LET q == Lower(query)
    IN  SelectSeq(catalog, LAMBDA item :
            \/ Contains(q, Lower(item.name))
            \/ Contains(q, Lower(item.category))
            \/ \E k \in 1..Len(item.tags) : Contains(q, Lower(item.tags[k]))
            \/ Contains(q, Lower(item.brand)))

\* first cart line whose name contains item_name, 0 if none
FindInCart(items, item_name) ==
    LET hits == {i \in 1..Len(items) : Contains(Lower(item_name), Lower(items[i].name))}
    IN  IF hits = {} THEN 0 ELSE CHOOSE i \in hits : \A j \in hits : i <= j

add_item_to_cart(item_name, quantity, notes) ==
    /\ agent = "food"
    /\ call' = [op |-> "add_item_to_cart",
                arg |-> [item_name |-> item_name, quantity |-> quantity, notes |-> notes]]
    /\ LET matches == SearchItems(Catalog, item_name)
       IN  IF matches = <<>>
           THEN /\ ret' = "not_in_catalog"
                /\ emitted' = <<>>
                /\ UNCHANGED foodVars
           ELSE IF Len(matches) > 1
           THEN /\ ret' = "which_one"
                /\ emitted' = <<>>
                /\ UNCHANGED foodVars
           ELSE LET c == [cart EXCEPT !.items = AddItem(cart.items, matches[1], quantity, notes)]
                IN  /\ GetItemCount(c.items) <= MaxItems
                    /\ Len(orders_dir.files) < MaxOrders
                    /\ cart' = c
                    /\ emitted' = SendCartUpdate(c)
                    /\ ret' = "added"
                    /\ UNCHANGED orders_dir
    /\ UNCHANGED foodFrame

remove_item_from_cart(item_name) ==
    /\ agent = "food"
    /\ call' = [op |-> "remove_item_from_cart", arg |-> [item_name |-> item_name]]
    /\ LET i == FindInCart(cart.items, item_name)
       IN  IF i = 0
           THEN /\ ret' = "not_in_cart"
                /\ emitted' = <<>>
                /\ UNCHANGED foodVars
           ELSE LET c == [cart EXCEPT !.items = RemoveItem(cart.items, cart.items[i].id)]
                IN  /\ cart' = c
                    /\ emitted' = SendCartUpdate(c)
                    /\ ret' = "removed"
                    /\ UNCHANGED orders_dir
    /\ UNCHANGED foodFrame

update_item_quantity(item_name, new_quantity) ==
    /\ agent = "food"
    /\ call' = [op |-> "update_item_quantity",
                arg |-> [item_name |-> item_name, new_quantity |-> new_quantity]]
    /\ LET i == FindInCart(cart.items, item_name)
       IN  IF i = 0
           THEN /\ ret' = "not_in_cart"
                /\ emitted' = <<>>
                /\ UNCHANGED foodVars
           ELSE LET c == [cart EXCEPT !.items =
                            IF new_quantity <= 0
                            THEN RemoveItem(cart.items, cart.items[i].id)
                            ELSE UpdateQuantity(cart.items, cart.items[i].id, new_quantity)]
                IN  /\ GetItemCount(c.items) <= MaxItems
                    /\ cart' = c
                    /\ emitted' = SendCartUpdate(c)
                    /\ ret' = IF new_quantity <= 0 THEN "removed" ELSE "updated"
                    /\ UNCHANGED orders_dir
    /\ UNCHANGED foodFrame

get_customer_info(name, address) ==
    /\ agent = "food"
    /\ call' = [op |-> "get_customer_info", arg |-> [name |-> name, address |-> address]]
    /\ LET c == [cart EXCEPT !.customer_name = Some(name),
                             !.customer_address = IF address # <<>> THEN Some(address) ELSE @]
       IN  /\ cart' = c
           /\ emitted' = SendCartUpdate(c)
    /\ ret' = IF address # <<>> THEN "got_it_delivering" ELSE "thanks_name"
    /\ UNCHANGED orders_dir
    /\ UNCHANGED foodFrame

\* lines 419 and 422: why complete_order refuses, "" when it goes ahead
OrderRefusalIgnoringName(c) ==
    IF c.items = <<>> THEN "cart_empty" ELSE ""
OrderRefusal(c) ==
    IF c.items = <<>> THEN "cart_empty"
    ELSE IF ~Truthy(c.customer_name) THEN "need_name"
    ELSE ""

\* round(x * 0.08, 2) on an amount in cents
Tax(total) == (total * 8 + 50) \div 100

OrderData(c, n) ==
    [order_id |-> <<n, c.customer_name>>,
     customer |-> [name |-> c.customer_name,
                   address |-> IF Truthy(c.customer_address)
                               THEN c.customer_address ELSE Some("Pickup")],
     items |-> c.items,
     summary |-> [total_items |-> GetItemCount(c.items), subtotal |-> GetTotal(c.items),
                  tax |-> Tax(GetTotal(c.items)),
                  total |-> GetTotal(c.items) + Tax(GetTotal(c.items))],
     status |-> "confirmed"]

\* lines 480-490: the cart the call leaves behind; it is cleared for the next
\* order at the end of the try block and kept when the except branch is taken
CartAfterOrderAlwaysCleared(c, saved) == CartState
CartAfterOrderKeepingCustomer(c, saved) == IF saved THEN [c EXCEPT !.items = <<>>] ELSE c
CartAfterOrder(c, saved) == IF saved THEN CartState ELSE c

complete_order ==
    /\ agent = "food"
    /\ call' = [op |-> "complete_order", arg |-> None]
    /\ IF OrderRefusal(cart) # ""
       THEN /\ ret' = OrderRefusal(cart)
            /\ emitted' = <<>>
            /\ UNCHANGED foodVars
       ELSE IF ~orders_dir.creatable
       THEN \* line 447: os.makedirs is outside the try block
            /\ ret' = "raise OSError"
            /\ emitted' = <<>>
            /\ UNCHANGED foodVars
       ELSE LET order_data == OrderData(cart, Len(orders_dir.files) + 1)
            IN  /\ Len(orders_dir.files) < MaxOrders
                /\ cart' = CartAfterOrder(cart, orders_dir.writable /\ ~(room /\ publish_raises))
                /\ IF orders_dir.writable /\ room /\ publish_raises
                   THEN \* lines 458-466: publish_data raises inside the try block
                        /\ orders_dir' = [orders_dir EXCEPT !.files = Append(@, order_data)]
                        /\ emitted' = <<>>
                        /\ ret' = "issue_saving"
                   ELSE IF orders_dir.writable
                   THEN /\ orders_dir' = [orders_dir EXCEPT !.files = Append(@, order_data)]
                        /\ emitted' = CompletionMessages(
                             IF room THEN <<[type |-> "order_complete", data |-> order_data]>>
                             ELSE <<>>,
                             SendCartUpdate([cart EXCEPT !.order_complete = TRUE]))
                        /\ ret' = "order_placed"
                   ELSE /\ ret' = "issue_saving"
                        /\ emitted' = <<>>
                        /\ UNCHANGED orders_dir
    /\ UNCHANGED foodFrame

\* tool arguments: a query naming both items, one naming each, one naming none
ItemQueries == {<<"a">>, <<" ">>, <<"a", "A">>, <<" ", "a">>}
Notes == {<<>>, <<"a">>}
CustomerNames == {<<>>, <<"a">>}

\* the ids of the catalog and one id no item has
ItemIds == {Catalog[i].id : i \in 1..Len(Catalog)} \cup {"eggs"}

\* a call of a CartState method on the session's cart; the methods return None
CartMethod(op, arg, items) ==
    /\ agent = "food"
    /\ call' = [op |-> op, arg |-> arg]
    /\ cart' = [cart EXCEPT !.items = items]
    /\ ret' = "None"
    /\ emitted' = <<>>
    /\ UNCHANGED orders_dir
    /\ UNCHANGED foodFrame

add_item(item, quantity, notes) ==
    /\ agent = "food"
    /\ GetItemCount(cart.items) + quantity <= MaxItems
    /\ CartMethod("add_item", [item |-> item.id, quantity |-> quantity, notes |-> notes],
                  AddItem(cart.items, item, quantity, notes))

remove_item(item_id) ==
    /\ agent = "food"
    /\ CartMethod("remove_item", [item_id |-> item_id], RemoveItem(cart.items, item_id))

update_quantity(item_id, new_quantity) ==
    /\ agent = "food"
    /\ CartMethod("update_quantity", [item_id |-> item_id, new_quantity |-> new_quantity],
                  UpdateQuantity(cart.items, item_id, new_quantity))

FoodInit ==
    /\ cart = CartState
    /\ orders_dir = [creatable |-> TRUE, writable |-> TRUE, files |-> <<>>]

\* the cart tools
CartNext ==
    \/ \E n \in ItemQueries, q \in 1..MaxItems, notes \in Notes : add_item_to_cart(n, q, notes)
    \/ \E n \in ItemQueries : remove_item_from_cart(n)
    \/ \E n \in ItemQueries, q \in 0..MaxItems : update_item_quantity(n, q)

\* the tools of an order from first item to checkout, for a customer who asks
\* for one kind of item
OrderQueries == {<<"a">>, <<" ">>, <<" ", "a">>}
FoodNext ==
    \/ \E n \in OrderQueries, q \in 1..MaxItems : add_item_to_cart(n, q, <<>>)
    \/ \E n \in OrderQueries : remove_item_from_cart(n)
    \/ \E n \in OrderQueries, q \in 0..MaxItems : update_item_quantity(n, q)
    \/ \E n \in CustomerNames, a \in CustomerNames : get_customer_info(n, a)
    \/ complete_order

----------------------------------------------------------------------------
(* Append-only JSON logs (wellness_log.json, leads_sample.json).  kind is   *)
(* "absent", "ok" (an object holding the list of entries), "nokey" (valid   *)
(* JSON without the list), "garbage" (not JSON) or "unreadable" (the file   *)
(* holds its entries and open(file, 'r') raises).                           *)

\* lines 233-239: the default structure, replaced by the file's content when
\* the file exists and parses
LoadLog(file) == IF file.kind \in {"ok", "nokey"} THEN file ELSE [file EXCEPT !.entries = <<>>]

\* line 242: log["entries"].append(...) raises KeyError when the key is missing
AppendRaises(file) == LoadLog(file).kind = "nokey"

\* lines 242-247: the file after the entry was appended and the document written
WrittenLogOverwriting(file, entry) ==
    [file EXCEPT !.kind = "ok", !.entries = <<entry>>]
WrittenLog(file, entry) ==
    [file EXCEPT !.kind = "ok", !.entries = Append(LoadLog(file).entries, entry)]

----------------------------------------------------------------------------
(* Health and wellness companion *)

WellnessState ==
    [mood |-> None, energy_level |-> None, stress_factors |-> <<>>,
     daily_objectives |-> <<>>, self_care_intentions |-> <<>>,
     check_in_complete |-> FALSE]

\* WellnessState.is_complete
WellnessIsCompleteWithoutObjectives(w) == w.mood # None /\ w.energy_level # None
WellnessIsComplete(w) ==
    w.mood # None /\ w.energy_level # None /\ Len(w.daily_objectives) > 0

\* WellnessState.get_missing_fields
WellnessMissingFields(w) ==
    (IF ~Truthy(w.mood) THEN <<"mood">> ELSE <<>>)
    \o (IF ~Truthy(w.energy_level) THEN <<"energy level">> ELSE <<>>)
    \o (IF w.daily_objectives = <<>> THEN <<"daily objectives">> ELSE <<>>)

SendWellnessUpdate(w) ==
    IF room /\ ~publish_raises THEN <<[type |-> "wellness_update", data |-> w]>> ELSE <<>>

InList(x, list) == \E i \in 1..Len(list) : list[i] = x

\* append the lower-cased value unless the list already has it
AddLoweredUnchecked(list, x) == Append(list, Lower(x))
AddLowered(list, x) == IF InList(Lower(x), list) THEN list ELSE Append(list, Lower(x))

\* a field updater: the new state is published and acknowledged
WellnessUpdate(op, arg, w) ==
    /\ agent = "wellness"
    /\ call' = [op |-> op, arg |-> arg]
    /\ wellness_state' = w
    /\ emitted' = SendWellnessUpdate(w)
    /\ ret' = "acknowledged"
    /\ UNCHANGED wellness_log_file
    /\ UNCHANGED wellnessFrame

record_mood(mood) ==
    WellnessUpdate("record_mood", mood, [wellness_state EXCEPT !.mood = Some(Lower(mood))])

record_energy_level(energy_level) ==
    WellnessUpdate("record_energy_level", energy_level,
                   [wellness_state EXCEPT !.energy_level = Some(Lower(energy_level))])

add_stress_factor(stress_factor) ==
    WellnessUpdate("add_stress_factor", stress_factor,
                   [wellness_state EXCEPT !.stress_factors = AddLowered(@, stress_factor)])

add_daily_objective(objective) ==
    WellnessUpdate("add_daily_objective", objective,
                   [wellness_state EXCEPT !.daily_objectives = AddLowered(@, objective)])

add_self_care_intention(intention) ==
    WellnessUpdate("add_self_care_intention", intention,
                   [wellness_state EXCEPT !.self_care_intentions = AddLowered(@, intention)])

check_wellness_status ==
    /\ agent = "wellness"
    /\ call' = [op |-> "check_wellness_status", arg |-> None]
    /\ ret' = IF WellnessMissingFields(wellness_state) = <<>>
              THEN "covered_main_areas" ELSE "still_like_to_hear"
    /\ emitted' = <<>>
    /\ UNCHANGED wellnessVars
    /\ UNCHANGED wellnessFrame

\* lines 224-230: the entry to append; date and time are left out
CheckinData(w) ==
    [mood |-> w.mood, energy_level |-> w.energy_level,
     stress_factors |-> w.stress_factors, daily_objectives |-> w.daily_objectives,
     self_care_intentions |-> w.self_care_intentions,
     check_in_complete |-> w.check_in_complete,
     summary |-> <<w.mood, w.energy_level, SubSeq(w.daily_objectives, 1,
                     IF Len(w.daily_objectives) < 3 THEN Len(w.daily_objectives) ELSE 3)>>]

\* line 270: the record the saved check-in leaves behind
CheckinCompletedThenReset(w) == [WellnessState EXCEPT !.check_in_complete = TRUE]
CheckinCompleted(w) == [w EXCEPT !.check_in_complete = TRUE]

complete_checkin ==
    /\ agent = "wellness"
    /\ call' = [op |-> "complete_checkin", arg |-> None]
    /\ IF ~WellnessIsComplete(wellness_state)
       THEN /\ ret' = "cover_missing"
            /\ emitted' = <<>>
            /\ UNCHANGED wellnessVars
       ELSE IF AppendRaises(wellness_log_file)
       THEN /\ ret' = "raise KeyError"
            /\ emitted' = <<>>
            /\ UNCHANGED wellnessVars
       ELSE IF ~wellness_log_file.writable
       THEN /\ ret' = "issue_saving"
            /\ emitted' = <<>>
            /\ UNCHANGED wellnessVars
       ELSE IF room /\ publish_raises
       THEN \* lines 256-260: publish_data raises inside the try block
            /\ Len(LoadLog(wellness_log_file).entries) < MaxEntries
            /\ wellness_log_file' = WrittenLog(wellness_log_file, CheckinData(wellness_state))
            /\ ret' = "issue_saving"
            /\ emitted' = <<>>
            /\ UNCHANGED wellness_state
       ELSE LET checkin_data == CheckinData(wellness_state)
                w == CheckinCompleted(wellness_state)
            IN  /\ Len(LoadLog(wellness_log_file).entries) < MaxEntries
                /\ wellness_log_file' = WrittenLog(wellness_log_file, checkin_data)
                /\ wellness_state' = w
                /\ emitted' = CompletionMessages(
                     IF room THEN <<[type |-> "checkin_complete", data |-> checkin_data]>>
                     ELSE <<>>,
                     SendWellnessUpdate(w))
                /\ ret' = "recap_saved"
    /\ UNCHANGED wellnessFrame

\* _load_previous_entries: [] unless the file exists and parses
LoadPreviousEntries(file) ==
    IF file.kind = "ok" THEN file.entries ELSE <<>>

start_new_checkin ==
    /\ agent = "wellness"
    /\ call' = [op |-> "start_new_checkin", arg |-> None]
    /\ wellness_state' = WellnessState
    /\ emitted' = SendWellnessUpdate(WellnessState)
    /\ ret' = IF LoadPreviousEntries(wellness_log_file) = <<>>
              THEN "hello_first_checkin" ELSE "hello_last_time"
    /\ UNCHANGED wellness_log_file
    /\ UNCHANGED wellnessFrame

MoodWords == {<<"A">>, <<>>}
EnergyWords == {<<"a">>}
ListWords == {<<"a">>, <<"A">>}

\* an entry of an earlier session
OldEntry == [mood |-> Some(<<"a">>), old |-> TRUE]

WellnessInit ==
    /\ wellness_state = WellnessState
    /\ wellness_log_file \in
         {[kind |-> "absent", writable |-> TRUE, entries |-> <<>>],
          [kind |-> "ok", writable |-> TRUE, entries |-> <<OldEntry>>]}

WellnessNext ==
    \/ \E m \in MoodWords : record_mood(m)
    \/ \E e \in EnergyWords : record_energy_level(e)
    \/ \E x \in ListWords : add_stress_factor(x)
    \/ \E x \in ListWords : add_daily_objective(x)
    \/ \E x \in ListWords : add_self_care_intention(x)
    \/ check_wellness_status
    \/ complete_checkin
    \/ start_new_checkin

----------------------------------------------------------------------------
(* Sales development agent *)

LeadState ==
    [name |-> None, company |-> None, email |-> None, role |-> None,
     use_case |-> None, team_size |-> None, timeline |-> None,
     questions_asked |-> <<>>, conversation_summary |-> <<>>,
     call_complete |-> FALSE]

\* LeadState.is_complete
LeadIsCompleteWithoutEmail(l) == l.name # None /\ l.use_case # None
LeadIsComplete(l) == l.name # None /\ l.email # None /\ l.use_case # None

\* LeadState.get_missing_fields
LeadMissingFields(l) ==
    (IF ~Truthy(l.name) THEN <<"name">> ELSE <<>>)
    \o (IF ~Truthy(l.email) THEN <<"email">> ELSE <<>>)
    \o (IF ~Truthy(l.company) THEN <<"company">> ELSE <<>>)
    \o (IF ~Truthy(l.use_case) THEN <<"use case">> ELSE <<>>)
    \o (IF ~Truthy(l.timeline) THEN <<"timeline">> ELSE <<>>)

SendLeadUpdate(l) ==
    IF room /\ ~publish_raises THEN <<[type |-> "lead_update", data |-> l]>> ELSE <<>>

LeadUpdate(op, arg, l) ==
    /\ agent = "sdr"
    /\ call' = [op |-> op, arg |-> arg]
    /\ lead_state' = l
    /\ emitted' = SendLeadUpdate(l)
    /\ ret' = "acknowledged"
    /\ UNCHANGED leads_file
    /\ UNCHANGED leadFrame

record_lead_name(name) ==
    LeadUpdate("record_lead_name", name, [lead_state EXCEPT !.name = Some(name)])

record_lead_company(company) ==
    LeadUpdate("record_lead_company", company, [lead_state EXCEPT !.company = Some(company)])

record_lead_email(email) ==
    LeadUpdate("record_lead_email", email, [lead_state EXCEPT !.email = Some(email)])

record_use_case(use_case) ==
    LeadUpdate("record_use_case", use_case, [lead_state EXCEPT !.use_case = Some(use_case)])

record_lead_role(role) ==
    LeadUpdate("record_lead_role", role, [lead_state EXCEPT !.role = Some(role)])

record_team_size(team_size) ==
    LeadUpdate("record_team_size", team_size, [lead_state EXCEPT !.team_size = Some(team_size)])

\* the three values of lead_state.timeline
TimelineNow == <<"n", "o", "w">>
TimelineSoon == <<"s", "o", "o", "n">>
TimelineLater == <<"l", "a", "t", "e", "r">>

\* lines 293-296: the keyword lists, in the order of the source
NowWords ==
    <<<<"n", "o", "w">>,
      <<"i", "m", "m", "e", "d", "i", "a", "t", "e">>,
      <<"u", "r", "g", "e", "n", "t">>,
      <<"a", "s", "a", "p">>,
      <<"t", "o", "d", "a", "y">>>>
SoonWords ==
    <<<<"s", "o", "o", "n">>,
      <<"w", "e", "e", "k">>,
      <<"m", "o", "n", "t", "h">>,
      <<"n", "e", "x", "t">>>>

\* any(word in s for word in words)
AnyWordIn(words, s) == \E i \in 1..Len(words) : Contains(words[i], s)

\* lines 292-298
NormalizedTimelineSoonFirst(timeline) ==
    LET timeline_lower == Lower(timeline)
    IN  IF AnyWordIn(SoonWords, timeline_lower) THEN TimelineSoon
        ELSE IF AnyWordIn(NowWords, timeline_lower) THEN TimelineNow
        ELSE TimelineLater
NormalizedTimeline(timeline) ==
    LET timeline_lower == Lower(timeline)
    IN  IF AnyWordIn(NowWords, timeline_lower) THEN TimelineNow
        ELSE IF AnyWordIn(SoonWords, timeline_lower) THEN TimelineSoon
        ELSE TimelineLater

record_timeline(timeline) ==
    /\ agent = "sdr"
    /\ call' = [op |-> "record_timeline", arg |-> timeline]
    /\ LET normalized_timeline == NormalizedTimeline(timeline)
           l == [lead_state EXCEPT !.timeline = Some(normalized_timeline)]
       IN  /\ lead_state' = l
           /\ emitted' = SendLeadUpdate(l)
           /\ ret' = IF normalized_timeline = TimelineNow THEN "set_up_very_quickly"
                     ELSE IF normalized_timeline = TimelineSoon THEN "when_you_are_ready"
                     ELSE "exploring_options_early"
    /\ UNCHANGED leads_file
    /\ UNCHANGED leadFrame

\* str.split(): the words of s between runs of blanks
RECURSIVE Split(_)
Split(s) ==
    IF s = <<>> THEN <<>>
    ELSE IF s[1] = " " THEN Split(Tail(s))
    ELSE LET blanks == {i \in 1..Len(s) : s[i] = " "}
             n == IF blanks = {} THEN Len(s)
                  ELSE (CHOOSE i \in blanks : \A j \in blanks : i <= j) - 1
         IN  <<SubSeq(s, 1, n)>> \o Split(SubSeq(s, n + 1, Len(s)))

\* the content of shared-data/sdr_company_faq.json under "faq"; the second
\* entry has no "keywords"
FaqItems ==
    <<[question |-> <<"W", "h", "a", "t", " ", "a", "r", "e", " ", "y", "o", "u", "r", " ", "f", "e", "e", "s", "?">>,
       keywords |-> <<<<"p", "r", "i", "c", "i", "n", "g">>, <<"f", "e", "e", "s">>>>, answer |-> "answer_fees"],
      [question |-> <<"W", "h", "a", "t", " ", "w", "h", "a", "t">>,
       keywords |-> <<>>, answer |-> "answer_what"],
      [question |-> <<"D", "o", " ", "y", "o", "u", " ", "c", "h", "a", "r", "g", "e", " ", "f", "e", "e", "s">>,
       keywords |-> <<<<"C", "h", "a", "r", "g", "e">>>>, answer |-> "answer_charge"]>>

\* lines 90-99: the score of one FAQ entry
FaqScore(item, query_lower) ==
    2 * Cardinality({k \in 1..Len(item.keywords) :
                       Contains(Lower(item.keywords[k]), query_lower)})
    + LET question_words == Split(Lower(item.question))
      IN  Cardinality({w \in 1..Len(question_words) :
                         Len(question_words[w]) > 3 /\ Contains(question_words[w], query_lower)})

\* lines 101-103: whether the entry replaces the best match so far
ReplacesBestOnTie(score, best_score) == score >= best_score
ReplacesBest(score, best_score) == score > best_score

\* lines 89-105: the loop over the entries
RECURSIVE BestMatch(_, _, _, _)
BestMatch(items, query_lower, best_match, best_score) ==
    IF items = <<>> THEN (IF best_score > 0 THEN best_match ELSE None)
    ELSE LET score == FaqScore(Head(items), query_lower)
         IN  IF ReplacesBest(score, best_score)
             THEN BestMatch(Tail(items), query_lower, Some(Head(items)), score)
             ELSE BestMatch(Tail(items), query_lower, best_match, best_score)

\* CompanyFAQ.search_faq
SearchFaq(faq_items, query) == BestMatch(faq_items, Lower(query), None, 0)

answer_company_question(question) ==
    /\ agent = "sdr"
    /\ Len(lead_state.questions_asked) < MaxQuestions
    /\ call' = [op |-> "answer_company_question", arg |-> question]
    /\ lead_state' = [lead_state EXCEPT !.questions_asked = Append(@, question)]
    /\ emitted' = <<>>
    /\ ret' = LET faq_match == SearchFaq(FaqItems, question)
              IN  IF faq_match # None THEN faq_match[1].answer ELSE "company_overview"
    /\ UNCHANGED leads_file
    /\ UNCHANGED leadFrame

check_lead_completeness ==
    /\ agent = "sdr"
    /\ call' = [op |-> "check_lead_completeness", arg |-> None]
    /\ ret' = IF LeadMissingFields(lead_state) = <<>>
              THEN "have_all_key_information" ELSE "bit_more_information"
    /\ emitted' = <<>>
    /\ UNCHANGED leadVars
    /\ UNCHANGED leadFrame

\* lines 332-352: the parts of the conversation summary, joined by " - "
SummaryParts(l) ==
    (IF Truthy(l.name) THEN <<[part |-> "name", of |-> l.name]>> ELSE <<>>)
    \o (IF Truthy(l.role) /\ Truthy(l.company)
        THEN <<[part |-> "role at company", of |-> <<l.role, l.company>>]>>
        ELSE IF Truthy(l.company) THEN <<[part |-> "from company", of |-> l.company]>>
        ELSE <<>>)
    \o (IF Truthy(l.use_case) THEN <<[part |-> "interested in", of |-> l.use_case]>> ELSE <<>>)
    \o (IF Truthy(l.timeline) /\ l.timeline \in {Some(TimelineNow), Some(TimelineSoon),
                                                   Some(TimelineLater)}
        THEN <<[part |-> "timeline", of |-> l.timeline]>> ELSE <<>>)

\* lines 355-361: the entry to append; date and time are left out
LeadData(l) == [lead |-> l, questions_count |-> Len(l.questions_asked)]

complete_call_and_save_lead ==
    /\ agent = "sdr"
    /\ call' = [op |-> "complete_call_and_save_lead", arg |-> None]
    /\ IF ~LeadIsComplete(lead_state)
       THEN /\ ret' = "before_we_wrap_up"
            /\ emitted' = <<>>
            /\ UNCHANGED leadVars
       ELSE LET summarised == [lead_state EXCEPT !.conversation_summary = SummaryParts(lead_state)]
                lead_data == LeadData(summarised)
                l == [summarised EXCEPT !.call_complete = TRUE]
            IN  IF AppendRaises(leads_file)
                THEN /\ ret' = "raise KeyError"
                     /\ emitted' = <<>>
                     /\ lead_state' = summarised
                     /\ UNCHANGED leads_file
                ELSE IF ~leads_file.writable
                THEN /\ ret' = "noted_all_your_information"
                     /\ emitted' = <<>>
                     /\ lead_state' = summarised
                     /\ UNCHANGED leads_file
                ELSE IF room /\ publish_raises
                THEN \* lines 387-391: publish_data raises inside the try block
                     /\ Len(LoadLog(leads_file).entries) < MaxEntries
                     /\ leads_file' = WrittenLog(leads_file, lead_data)
                     /\ ret' = "noted_all_your_information"
                     /\ emitted' = <<>>
                     /\ lead_state' = summarised
                ELSE /\ Len(LoadLog(leads_file).entries) < MaxEntries
                     /\ leads_file' = WrittenLog(leads_file, lead_data)
                     /\ lead_state' = l
                     /\ emitted' = CompletionMessages(
                          IF room THEN <<[type |-> "call_complete", data |-> lead_data]>>
                          ELSE <<>>,
                          SendLeadUpdate(l))
                     /\ ret' = "recap_saved"
    /\ UNCHANGED leadFrame

LeadNames == {<<"a">>, <<>>}
LeadWords == {<<"a">>}

LeadInit ==
    /\ lead_state = LeadState
    /\ leads_file \in
         {[kind |-> "absent", writable |-> TRUE, entries |-> <<>>],
          [kind |-> "ok", writable |-> TRUE, entries |-> <<OldEntry>>]}

\* what a prospect says about the start, and what a prospect asks
TimelineInputs ==
    {<<"r", "i", "g", "h", "t", " ", "n", "o", "w", " ", "p", "l", "e", "a", "s", "e">>,
     <<"m", "a", "y", "b", "e", " ", "n", "e", "x", "t", " ", "m", "o", "n", "t", "h">>,
     <<"j", "u", "s", "t", " ", "c", "u", "r", "i", "o", "u", "s">>,
     <<"A", "S", "A", "P">>,
     <<"n", "e", "x", "t", " ", "w", "e", "e", "k", " ", "n", "o", "t", " ", "n", "o", "w">>,
     <<"I", " ", "k", "n", "o", "w">>,
     <<"W", "e", "e", "k", "e", "n", "d">>,
     <<>>}
Questions ==
    {<<"w", "h", "a", "t", " ", "a", "r", "e", " ", "y", "o", "u", "r", " ", "f", "e", "e", "s">>,
     <<"x", "y", "z">>,
     <<"w", "h", "a", "t", " ", "y", "o", "u", "r">>,
     <<"C", "H", "A", "R", "G", "E", " ", "w", "h", "a", "t">>,
     <<"f", "e", "e", "s">>,
     <<>>}

LeadNext ==
    \/ \E x \in LeadNames : record_lead_name(x)
    \/ \E x \in LeadWords : record_lead_company(x)
    \/ \E x \in LeadWords : record_lead_email(x)
    \/ \E x \in LeadWords : record_use_case(x)
    \/ check_lead_completeness
    \/ complete_call_and_save_lead

----------------------------------------------------------------------------
\* entrypoint: agent.set_room(ctx.room)
----------------------------------------------------------------------------
(* Game master agent *)

\* GameMasterAgent.__init__: the story before start_adventure
StoryState ==
    [location |-> None, npcs_met |-> <<>>, items_found |-> <<>>, key_events |-> <<>>,
     turn_count |-> 0]

\* publish_data of _send_story_update
SendStoryUpdate(st) ==
    IF room /\ ~publish_raises THEN <<[type |-> "story_update", data |-> st]>> ELSE <<>>

\* a story tool: the new state is published
StoryUpdate(op, arg, st, result) ==
    /\ agent = "gm"
    /\ Len(st.key_events) <= MaxEvents
    /\ call' = [op |-> op, arg |-> arg]
    /\ story_state' = st
    /\ emitted' = SendStoryUpdate(st)
    /\ ret' = result
    /\ UNCHANGED storyFrame

start_adventure ==
    StoryUpdate("start_adventure", None,
                [location |-> Some(<<"T", "h", "e", " ", "C", "r", "o", "s", "s", "r", "o", "a", "d", "s", " ", "I", "n", "n">>),
                 npcs_met |-> <<>>, items_found |-> <<>>,
                 key_events |-> <<<<"A", "d", "v", "e", "n", "t", "u", "r", "e", " ", "b", "e", "g", "i", "n", "s">>>>,
                 turn_count |-> 0],
                "you_awaken")

record_location(location) ==
    StoryUpdate("record_location", location,
                [story_state EXCEPT
                   !.location = Some(location),
                   !.key_events = Append(@, <<"T", "r", "a", "v", "e", "l", "e", "d", " ", "t", "o", " ">> \o location)],
                "you_are_now_at")

\* lines 121-124 and 136-139: the entry and its key event are appended unless
\* the list holds an equal entry
WithEntry(st, field, entry, event) ==
    IF InList(entry, st[field]) THEN st
    ELSE [st EXCEPT ![field] = Append(@, entry), !.key_events = Append(@, event)]

record_npc_encounter(npc_name, npc_description) ==
    StoryUpdate("record_npc_encounter", [npc_name |-> npc_name, npc_description |-> npc_description],
                WithEntry(story_state, "npcs_met",
                          [name |-> npc_name, description |-> npc_description],
                          <<"M", "e", "t", " ">> \o npc_name),
                "you_have_encountered")

record_item_found(item_name, item_description) ==
    StoryUpdate("record_item_found", [item_name |-> item_name, item_description |-> item_description],
                WithEntry(story_state, "items_found",
                          [name |-> item_name, description |-> item_description],
                          <<"F", "o", "u", "n", "d", " ">> \o item_name),
                "you_have_acquired")

\* lines 150-151
WithKeyEventOnly(st, event_description) ==
    [st EXCEPT !.key_events = Append(@, event_description)]
WithKeyEvent(st, event_description) ==
    [st EXCEPT !.key_events = Append(@, event_description), !.turn_count = @ + 1]

record_key_event(event_description) ==
    StoryUpdate("record_key_event", event_description,
                WithKeyEvent(story_state, event_description), "event_recorded")

StoryNames == {<<"a">>, <<"A">>}
StoryDescriptions == {<<>>, <<"a">>}

StoryNext ==
    \/ start_adventure
    \/ \E x \in StoryNames : record_location(x)
    \/ \E x \in StoryNames, y \in StoryDescriptions : record_npc_encounter(x, y)
    \/ \E x \in StoryNames, y \in StoryDescriptions : record_item_found(x, y)
    \/ \E x \in StoryNames : record_key_event(x)

----------------------------------------------------------------------------
(* Commerce agent *)

\* the content of shared-data/commerce_catalog.json
Products ==
    <<[id |-> "mug", name |-> <<"a">>, description |-> <<>>, category |-> "drinkware",
       price |-> 2, sizes |-> <<>>],
      [id |-> "tshirt", name |-> <<"A", " ">>, description |-> <<>>, category |-> "clothing",
       price |-> 4, sizes |-> <<"S", "M">>]>>

\* ProductCatalog.list_products({"search": search})
ListProducts(search) ==
    SelectSeq(Products, LAMBDA product :
        Contains(Lower(search), Lower(product.name))
        \/ Contains(Lower(search), Lower(product.description)))

\* the data of _send_cart_update
SendCommerceCartUpdate(items) ==
    IF room /\ ~publish_raises
    THEN <<[type |-> "cart_update",
            data |-> [items |-> items, count |-> Len(items),
                      total |-> SumOver([i \in 1..Len(items) |-> items[i].subtotal], items)]]>>
    ELSE <<>>

\* no product has been shown by search_catalog, so the reference is a name
add_to_cart(product_reference, quantity, size) ==
    /\ agent = "commerce"
    /\ call' = [op |-> "add_to_cart",
                arg |-> [product_reference |-> product_reference, quantity |-> quantity,
                         size |-> size]]
    /\ LET products == ListProducts(product_reference)
       IN  IF products = <<>>
           THEN /\ ret' = "could_not_find"
                /\ emitted' = <<>>
                /\ UNCHANGED cart_items
           ELSE LET product == products[1]
                IN  IF product.category = "clothing" /\ size = "" /\ product.sizes # <<>>
                    THEN /\ ret' = "what_size"
                         /\ emitted' = <<>>
                         /\ UNCHANGED cart_items
                    ELSE LET cart_item == [product_id |-> product.id, name |-> product.name,
                                           price |-> product.price, quantity |-> quantity,
                                           subtotal |-> product.price * quantity,
                                           size |-> IF size # "" THEN Some(size) ELSE None]
                         IN  /\ Len(cart_items) < MaxCartItems
                             /\ cart_items' = Append(cart_items, cart_item)
                             /\ emitted' = SendCommerceCartUpdate(cart_items')
                             /\ ret' = "added"
    /\ UNCHANGED order_manager
    /\ UNCHANGED commerceFrame

\* lines 436-445: the line items of the order
LineItems(items) ==
    [i \in 1..Len(items) |->
        [product_id |-> items[i].product_id, quantity |-> items[i].quantity,
         price |-> items[i].price, size |-> items[i].size]]

\* OrderManager.create_order: the order dict; id and created_at are left out
CreateOrder(line_items, customer_info, n) ==
    [id |-> n,
     items |-> [i \in 1..Len(line_items) |->
                  [product_id |-> line_items[i].product_id, quantity |-> line_items[i].quantity,
                   price |-> line_items[i].price,
                   subtotal |-> line_items[i].price * line_items[i].quantity,
                   size |-> line_items[i].size]],
     total |-> SumOver([i \in 1..Len(line_items) |->
                          line_items[i].price * line_items[i].quantity], line_items),
     currency |-> "INR", status |-> "pending", customer |-> customer_info]

place_order(customer_name, customer_address) ==
    /\ agent = "commerce"
    /\ call' = [op |-> "place_order",
                arg |-> [customer_name |-> customer_name, customer_address |-> customer_address]]
    /\ IF cart_items = <<>>
       THEN /\ ret' = "cart_is_empty"
            /\ emitted' = <<>>
            /\ UNCHANGED commerceVars
       ELSE LET customer_info ==
                    [name |-> IF customer_name # <<>> THEN Some(customer_name) ELSE None,
                     address |-> IF customer_address # <<>> THEN Some(customer_address) ELSE None]
                order == CreateOrder(LineItems(cart_items), customer_info,
                                     Len(order_manager.orders) + 1)
            IN  /\ Len(order_manager.orders) < MaxOrders
                /\ order_manager' =
                      [order_manager EXCEPT
                         !.orders = Append(@, order),
                         !.files = IF order_manager.writable THEN Append(@, order) ELSE @]
                /\ cart_items' = <<>>
                /\ emitted' =
                      (IF room /\ ~publish_raises
                       THEN <<[type |-> "order_complete", data |-> order]>> ELSE <<>>)
                      \o SendCommerceCartUpdate(<<>>)
                /\ ret' = "order_placed_successfully"
    /\ UNCHANGED commerceFrame

CommerceNext ==
    \/ \E r \in {<<"a">>, <<" ">>, <<"A", "A">>}, size \in {"", "M"} : add_to_cart(r, 2, size)
    \/ \E n \in CustomerNames, a \in CustomerNames : place_order(n, a)

set_room ==
    /\ ~room
    /\ room' = TRUE
    /\ call' = [op |-> "set_room", arg |-> None]
    /\ ret' = "None"
    /\ emitted' = <<>>
    /\ UNCHANGED <<agent, fraudVars, foodVars, wellnessVars, leadVars, sessions,
                   publish_raises, storyVars, commerceVars, tutorVars, improvVars>>

Agents == {"fraud", "food", "wellness", "sdr"}

\* the session constructs the one agent its room asks for; the state of the
\* other agent classes does not exist
Init ==
    /\ agent \in Agents
    /\ room = FALSE
    /\ call = [op |-> "__init__", arg |-> None]
    /\ ret = "None"
    /\ emitted = <<>>
    /\ IF agent = "fraud" THEN FraudInit
       ELSE fraud_case = None /\ case_loaded = FALSE /\ fraud_cases_file = None
    /\ IF agent = "food" THEN FoodInit
       ELSE cart = None /\ orders_dir = None
    /\ IF agent = "wellness" THEN WellnessInit
       ELSE wellness_state = None /\ wellness_log_file = None
    /\ IF agent = "sdr" THEN LeadInit
       ELSE lead_state = None /\ leads_file = None
    /\ sessions = None
    /\ OtherAgentsIdle

Next ==
    \/ set_room
    \/ FraudNext
    \/ CartNext
    \/ FoodNext
    \/ WellnessNext
    \/ LeadNext

Spec == Init /\ [][Next]_vars

\* one session of each agent class
FraudSession == Init /\ agent = "fraud"
FraudTools == set_room \/ FraudNext
SpecFraud == FraudSession /\ [][FraudTools]_vars

FoodSession == Init /\ agent = "food"
CartTools == set_room \/ CartNext
SpecCart == FoodSession /\ [][CartTools]_vars
FoodTools == set_room \/ FoodNext
SpecFood == FoodSession /\ [][FoodTools]_vars

\* the methods of the session's CartState object, called one at a time
CartMethods ==
    \/ \E i \in 1..Len(Catalog), q \in 1..MaxItems, notes \in Notes : add_item(Catalog[i], q, notes)
    \/ \E id \in ItemIds : remove_item(id)
    \/ \E id \in ItemIds, n \in -1..MaxItems : update_quantity(id, n)
SpecCartState == FoodSession /\ [][CartMethods]_vars

\* the sessions that fill in a record and append it to a log
RecordSession == Init /\ agent \in {"wellness", "sdr"}
RecordTools == set_room \/ WellnessNext \/ LeadNext
SpecRecord == RecordSession /\ [][RecordTools]_vars

----------------------------------------------------------------------------
(* Sessions whose store may be in any condition *)

\* the conditions a log file may be in when the session starts
LogFiles ==
    {[kind |-> k, writable |-> w,
      entries |-> IF k \in {"ok", "unreadable"} THEN <<OldEntry>> ELSE <<>>] :
        k \in {"absent", "ok", "nokey", "garbage", "unreadable"}, w \in BOOLEAN}

\* the conditions the orders directory may be in
OrderDirs == {[creatable |-> c, writable |-> w, files |-> <<>>] : c, w \in BOOLEAN}

InitIO ==
    /\ agent \in {"food", "wellness", "sdr"}
    /\ room = FALSE
    /\ call = [op |-> "__init__", arg |-> None]
    /\ ret = "None"
    /\ emitted = <<>>
    /\ fraud_case = None /\ case_loaded = FALSE /\ fraud_cases_file = None
    /\ IF agent = "food" THEN cart = CartState /\ orders_dir \in OrderDirs
       ELSE cart = None /\ orders_dir = None
    /\ IF agent = "wellness" THEN wellness_state = WellnessState /\ wellness_log_file \in LogFiles
       ELSE wellness_state = None /\ wellness_log_file = None
    /\ IF agent = "sdr" THEN lead_state = LeadState /\ leads_file \in LogFiles
       ELSE lead_state = None /\ leads_file = None
    /\ sessions = None
    /\ OtherAgentsIdle

\* the tools that lead to a persisted record
IOTools ==
    \/ set_room
    \/ \E m \in MoodWords : record_mood(m)
    \/ \E e \in EnergyWords : record_energy_level(e)
    \/ \E x \in ListWords : add_daily_objective(x)
    \/ complete_checkin
    \/ start_new_checkin
    \/ \E x \in LeadNames : record_lead_name(x)
    \/ \E x \in LeadWords : record_lead_email(x)
    \/ \E x \in LeadWords : record_use_case(x)
    \/ complete_call_and_save_lead
    \/ \E n \in OrderQueries, q \in 1..MaxItems : add_item_to_cart(n, q, <<>>)
    \/ \E n \in CustomerNames, a \in CustomerNames : get_customer_info(n, a)
    \/ complete_order

SpecIO == InitIO /\ [][IOTools]_vars

\* between two tool calls the fraud-case file becomes unreadable (open or
\* json.load raises in _load_fraud_cases) or read-only (open raises in
\* _save_fraud_cases), or recovers; its content stays
fraud_cases_file_condition(readable, writable) ==
    /\ agent = "fraud"
    /\ fraud_cases_file' = [fraud_cases_file EXCEPT !.readable = readable, !.writable = writable]
    /\ fraud_cases_file' # fraud_cases_file
    /\ call' = [op |-> "fraud_cases_file_condition", arg |-> <<readable, writable>>]
    /\ ret' = "None"
    /\ emitted' = <<>>
    /\ UNCHANGED <<fraud_case, case_loaded>>
    /\ UNCHANGED fraudFrame

\* a fraud session whose customer spells the name and the answer in one way
FraudIOTools ==
    \/ set_room
    \/ \E user_name \in StoreNames : load_fraud_case_by_username(user_name)
    \/ \E answer \in {StoreAnswers[i] : i \in 1..Len(StoreAnswers)} :
          verify_customer_identity(answer)
    \/ \E b \in BOOLEAN : record_transaction_confirmation(b)
    \/ \E r, w \in BOOLEAN : fraud_cases_file_condition(r, w)

SpecFraudIO == FraudSession /\ [][FraudIOTools]_vars

\* a session whose agent is a GameMasterAgent, and one whose agent is a
\* CommerceAgent over an orders directory that can or cannot be written
StorySession ==
    /\ agent = "gm"
    /\ room = FALSE
    /\ call = [op |-> "__init__", arg |-> None]
    /\ ret = "None"
    /\ emitted = <<>>
    /\ fraud_case = None /\ case_loaded = FALSE /\ fraud_cases_file = None
    /\ cart = None /\ orders_dir = None
    /\ wellness_state = None /\ wellness_log_file = None
    /\ lead_state = None /\ leads_file = None
    /\ sessions = None
    /\ publish_raises = FALSE
    /\ story_state = StoryState
    /\ cart_items = None /\ order_manager = None
    /\ TutorIdle
    /\ ImprovIdle

CommerceSession ==
    /\ agent = "commerce"
    /\ room = FALSE
    /\ call = [op |-> "__init__", arg |-> None]
    /\ ret = "None"
    /\ emitted = <<>>
    /\ fraud_case = None /\ case_loaded = FALSE /\ fraud_cases_file = None
    /\ cart = None /\ orders_dir = None
    /\ wellness_state = None /\ wellness_log_file = None
    /\ lead_state = None /\ leads_file = None
    /\ sessions = None
    /\ publish_raises = FALSE
    /\ story_state = None
    /\ cart_items = <<>>
    /\ order_manager \in {[orders |-> <<>>, files |-> <<>>, writable |-> w] : w \in BOOLEAN}
    /\ TutorIdle
    /\ ImprovIdle

CommerceTools == set_room \/ CommerceNext
SpecCommerce == CommerceSession /\ [][CommerceTools]_vars

\* the tools that collect a session record, for a food, wellness, lead or
\* game master session
CollectSession == (Init /\ agent \in {"food", "wellness", "sdr"}) \/ StorySession
CollectTools ==
    \/ set_room
    \/ \E m \in MoodWords : record_mood(m)
    \/ \E e \in EnergyWords : record_energy_level(e)
    \/ \E x \in ListWords : add_stress_factor(x)
    \/ \E x \in ListWords : add_daily_objective(x)
    \/ \E x \in ListWords : add_self_care_intention(x)
    \/ \E x \in LeadNames : record_lead_name(x)
    \/ \E x \in LeadWords : record_lead_company(x)
    \/ \E x \in LeadWords : record_lead_email(x)
    \/ \E x \in LeadWords : record_lead_role(x)
    \/ \E x \in LeadWords : record_use_case(x)
    \/ \E x \in LeadWords : record_team_size(x)
    \/ \E t \in {<<"A", "S", "A", "P">>, <<>>} : record_timeline(t)
    \/ \E q \in {<<"f", "e", "e", "s">>} : answer_company_question(q)
    \/ StoryNext
    \/ \E n \in CustomerNames, a \in CustomerNames : get_customer_info(n, a)
SpecCollect == CollectSession /\ [][CollectTools]_vars

LeadSession == Init /\ agent = "sdr"
\* the tools of a qualifying conversation
LeadTools ==
    \/ set_room
    \/ \E x \in LeadWords : record_lead_role(x)
    \/ \E x \in LeadWords : record_team_size(x)
    \/ \E t \in TimelineInputs : record_timeline(t)
    \/ \E q \in Questions : answer_company_question(q)
SpecLead == LeadSession /\ [][LeadTools]_vars

\* between two tool calls the data channel of the room starts or stops raising
\* in local_participant.publish_data
publish_data_condition(raises) ==
    /\ publish_raises' = raises
    /\ publish_raises' # publish_raises
    /\ call' = [op |-> "publish_data_condition", arg |-> raises]
    /\ ret' = "None"
    /\ emitted' = <<>>
    /\ UNCHANGED <<agent, room, fraudVars, foodVars, wellnessVars, leadVars, sessions,
                   storyVars, commerceVars, tutorVars, improvVars>>

\* a food, wellness or lead session with healthy stores on a channel that may fail
ChannelSession == Init /\ agent \in {"food", "wellness", "sdr"}
ChannelTools ==
    \/ IOTools
    \/ \E raises \in BOOLEAN : publish_data_condition(raises)
SpecChannel == ChannelSession /\ [][ChannelTools]_vars

----------------------------------------------------------------------------
(* Concurrent sessions.  Each session is a worker process with an agent of  *)
(* its own whose record is complete and which runs complete_checkin (or     *)
(* complete_call_and_save_lead) on the one log file.  The load of the       *)
(* document and its overwrite (open, json.dump, close) are one step each.   *)

Sessions == 1..NumSessions

\* the log file of the sessions' agent class
SharedLog == IF agent = "wellness" THEN wellness_log_file ELSE leads_file

\* checkin_data / lead_data of session s; the timestamp tells the entries apart
SessionEntry(s) == [mood |-> Some(<<"a">>), old |-> FALSE, timestamp |-> s]

\* lines 246-247: the file after the session's document was written over it
OverwrittenMerging(file, log) ==
    [file EXCEPT !.kind = "ok", !.entries = LoadLog(file).entries \o <<log[Len(log)]>>]
Overwritten(file, log) == [file EXCEPT !.kind = "ok", !.entries = log]

\* lines 233-242: read the document, or take the default, and append the entry
session_load(s) ==
    /\ sessions[s].pc = "ready"
    /\ call' = [op |-> "session_load", arg |-> s]
    /\ sessions' = [sessions EXCEPT ![s] =
         IF AppendRaises(SharedLog)
         THEN [pc |-> "done", log |-> <<>>, ret |-> "raise KeyError"]
         ELSE [pc |-> "loaded", log |-> Append(LoadLog(SharedLog).entries, SessionEntry(s)),
               ret |-> "None"]]
    /\ UNCHANGED <<agent, room, ret, emitted, fraudVars, foodVars, wellnessVars, leadVars,
                   publish_raises, storyVars, commerceVars, tutorVars, improvVars>>

\* lines 245-277: overwrite the file with the document and confirm, or report
\* that the check-in could not be saved
session_save(s) ==
    /\ sessions[s].pc = "loaded"
    /\ call' = [op |-> "session_save", arg |-> s]
    /\ LET saved == SharedLog.writable
           file == IF saved THEN Overwritten(SharedLog, sessions[s].log) ELSE SharedLog
       IN  /\ sessions' = [sessions EXCEPT ![s].pc = "done",
                                           ![s].ret = IF saved THEN "recap_saved"
                                                      ELSE "issue_saving"]
           /\ IF agent = "wellness"
              THEN wellness_log_file' = file /\ UNCHANGED leads_file
              ELSE leads_file' = file /\ UNCHANGED wellness_log_file
    /\ UNCHANGED <<agent, room, ret, emitted, fraudVars, foodVars, wellness_state, lead_state,
                   publish_raises, storyVars, commerceVars, tutorVars, improvVars>>

RaceInit ==
    /\ agent \in {"wellness", "sdr"}
    /\ room = FALSE
    /\ call = [op |-> "__init__", arg |-> None]
    /\ ret = "None"
    /\ emitted = <<>>
    /\ fraud_case = None /\ case_loaded = FALSE /\ fraud_cases_file = None
    /\ cart = None /\ orders_dir = None
    /\ IF agent = "wellness" THEN wellness_state = WellnessState /\ wellness_log_file \in LogFiles
       ELSE wellness_state = None /\ wellness_log_file = None
    /\ IF agent = "sdr" THEN lead_state = LeadState /\ leads_file \in LogFiles
       ELSE lead_state = None /\ leads_file = None
    /\ sessions = [s \in Sessions |-> [pc |-> "ready", log |-> <<>>, ret |-> "None"]]
    /\ OtherAgentsIdle

RaceNext == \E s \in Sessions : session_load(s) \/ session_save(s)

SpecRace == RaceInit /\ [][RaceNext]_vars

----------------------------------------------------------------------------
(* Properties of the fraud alert agent *)

TerminalStatuses == {"confirmed_safe", "confirmed_fraud", "verification_failed"}

\* the stored case the loaded case was read from (first case-insensitive name match)
StoredCase(file, fc) == file.cases[FirstMatch(file.cases, fc.user_name[1])]

\* the answer equals the stored answer once both are trimmed and lower-cased
SameAnswer(answer, stored) ==
    LET a == Lower(answer)
        b == Lower(stored)
        core(s) == {<<i, j>> \in (1..Len(s) + 1) \X (0..Len(s)) :
                       /\ \A k \in 1..(i - 1) : s[k] = " "
                       /\ \A k \in (j + 1)..Len(s) : s[k] = " "
                       /\ (i <= j => s[i] # " " /\ s[j] # " ")
                       /\ (i > j => j = i - 1 /\ \A k \in 1..Len(s) : s[k] = " ")}
    IN  \E p \in core(a) : \E q \in core(b) :
            /\ p[2] - p[1] = q[2] - q[1]
            /\ \A k \in 0..(p[2] - p[1]) : a[p[1] + k] = b[q[1] + k]

\* C1: record_transaction_confirmation invoked while verification_passed is
\* false returns the verify-first message and leaves status, outcome,
\* user_confirmed_transaction and the fraud-case store unchanged.
C1_ConfirmNeedsVerification ==
    [][(call'.op = "record_transaction_confirmation" /\ ~fraud_case.verification_passed)
        => /\ ret' = "verify_first"
           /\ fraud_case'.status = fraud_case.status
           /\ fraud_case'.outcome = fraud_case.outcome
           /\ fraud_case'.user_confirmed_transaction = fraud_case.user_confirmed_transaction
           /\ fraud_cases_file' = fraud_cases_file]_vars

\* a confirmation was refused on a loaded case whose verification had failed
C1_Witness ==
    /\ call.op = "record_transaction_confirmation"
    /\ ret = "verify_first"
    /\ case_loaded
    /\ fraud_case.status = "verification_failed"

\* C2: immediately after every successful load_fraud_case_by_username no
\* verification has occurred for the loaded case: verification_passed is false
\* (so a confirmation before a matching verify cannot change any status).
C2_LoadClearsVerification ==
    (call.op = "load_fraud_case_by_username" /\ ret = "case_pulled_up")
        => ~fraud_case.verification_passed

\* C3: with a case loaded, verify_customer_identity with an answer that differs
\* from the stored answer after trimming and lower-casing sets
\* verification_passed to false, status to verification_failed, records an
\* outcome note and writes that status and outcome into the store entry whose
\* userName matches the loaded case.
C3_FailedVerification ==
    [][(/\ call'.op = "verify_customer_identity"
        /\ case_loaded
        /\ ~SameAnswer(call'.arg, fraud_case.security_answer[1]))
        => /\ ~fraud_case'.verification_passed
           /\ fraud_case'.status = "verification_failed"
           /\ fraud_case'.outcome = Some("failed_verification")
           /\ StoredCase(fraud_cases_file', fraud_case).userName = fraud_case.user_name[1]
           /\ StoredCase(fraud_cases_file', fraud_case).status = "verification_failed"
           /\ StoredCase(fraud_cases_file', fraud_case).outcome = Some("failed_verification")]_vars

\* a wrong answer was given for a loaded case and its failure is in the store
C3_Witness ==
    /\ call.op = "verify_customer_identity"
    /\ ret = "cannot_proceed"
    /\ fraud_case.status = "verification_failed"
    /\ StoredCase(fraud_cases_file, fraud_case).status = "verification_failed"

\* C4: with a case loaded, verify_customer_identity with an answer equal to the
\* stored answer (trimmed, case-insensitive) sets verification_passed to true
\* and changes nothing else: status, outcome and the store are as before.
C4_PassedVerificationFrame ==
    [][(/\ call'.op = "verify_customer_identity"
        /\ case_loaded
        /\ SameAnswer(call'.arg, fraud_case.security_answer[1]))
        => /\ fraud_case' = [fraud_case EXCEPT !.verification_passed = TRUE]
           /\ case_loaded'
           /\ fraud_cases_file' = fraud_cases_file]_vars

\* an answer that differs from the stored one only in case or surrounding
\* blanks was accepted
C4_Witness ==
    /\ call.op = "verify_customer_identity"
    /\ ret = "verified"
    /\ fraud_case.verification_passed
    /\ call.arg # fraud_case.security_answer[1]

\* C5: once the status of the loaded case is confirmed_safe, confirmed_fraud or
\* verification_failed, every later verify_customer_identity or
\* record_transaction_confirmation on that case leaves the status, in memory
\* and in the store, at the already-set value.
C5_TerminalStatusesStay ==
    [][(/\ call'.op \in {"verify_customer_identity", "record_transaction_confirmation"}
        /\ case_loaded
        /\ fraud_case.status \in TerminalStatuses)
        => /\ fraud_case'.status = fraud_case.status
           /\ StoredCase(fraud_cases_file', fraud_case).status
                = StoredCase(fraud_cases_file, fraud_case).status]_vars

\* C6: there is no lockout after a failed verification: from a state with
\* status verification_failed a verify_customer_identity with the correct
\* answer sets verification_passed to true, and a following
\* record_transaction_confirmation moves the status to confirmed_safe or
\* confirmed_fraud and persists it.
C6_NoLockout ==
    [][/\ (/\ call'.op = "verify_customer_identity"
           /\ case_loaded
           /\ fraud_case.status = "verification_failed"
           /\ SameAnswer(call'.arg, fraud_case.security_answer[1]))
          => (fraud_case'.verification_passed /\ ret' = "verified")
       /\ (/\ call'.op = "record_transaction_confirmation"
           /\ fraud_case.status = "verification_failed"
           /\ fraud_case.verification_passed)
          => LET s == IF call'.arg THEN "confirmed_safe" ELSE "confirmed_fraud"
             IN  /\ fraud_case'.status = s
                 /\ StoredCase(fraud_cases_file', fraud_case).status = s]_vars

\* the correct answer was accepted on a case whose verification had failed
C6_Witness ==
    /\ call.op = "verify_customer_identity"
    /\ ret = "verified"
    /\ fraud_case.status = "verification_failed"
    /\ fraud_case.outcome = Some("failed_verification")
    /\ fraud_case.verification_passed

----------------------------------------------------------------------------
(* Properties of the food ordering cart *)

\* C7: after every sequence of CartState.add_item, update_quantity and
\* remove_item calls every cart line satisfies subtotal = price * quantity (so
\* adding the same id with empty notes with quantities 1 and then 2 gives one
\* line with quantity 3 and subtotal 3 * price), and get_total equals the sum of
\* price * quantity over the lines.
C7_SubtotalIsPriceTimesQuantity ==
    agent = "food" =>
        /\ \A i \in 1..Len(cart.items) :
               cart.items[i].subtotal = cart.items[i].price * cart.items[i].quantity
        /\ GetTotal(cart.items)
             = SumOver([i \in 1..Len(cart.items) |->
                          cart.items[i].price * cart.items[i].quantity], cart.items)

\* no two lines of the cart have the same item id and the same notes
NoDuplicateKeys(items) ==
    \A i, j \in 1..Len(items) :
        (items[i].id = items[j].id /\ items[i].notes = items[j].notes) => i = j

\* the lines of the cart with this item id and these notes
LinesWithKey(items, id, notes) ==
    {i \in 1..Len(items) : items[i].id = id /\ items[i].notes = notes}

\* C8: the grocery cart holds at most one line per (item id, notes) pair in
\* every reachable state: add_item with an id and notes equal to an existing
\* line's adds the given quantity to that line and does not change the number
\* of lines, while the same id with different notes creates a separate line.
C8_OneLinePerIdAndNotes ==
    /\ [](agent = "food" => NoDuplicateKeys(cart.items))
    /\ [][(call'.op = "add_item_to_cart" /\ ret' = "added")
          => LET item == SearchItems(Catalog, call'.arg.item_name)[1]
                 old == LinesWithKey(cart.items, item.id, call'.arg.notes)
             IN  IF old # {}
                 THEN /\ Len(cart'.items) = Len(cart.items)
                      /\ \A i \in old :
                             cart'.items[i].quantity
                               = cart.items[i].quantity + call'.arg.quantity
                      /\ \A i \in (1..Len(cart.items)) \ old : cart'.items[i] = cart.items[i]
                 ELSE /\ Len(cart'.items) = Len(cart.items) + 1
                      /\ SubSeq(cart'.items, 1, Len(cart.items)) = cart.items
                      /\ cart'.items[Len(cart'.items)].id = item.id
                      /\ cart'.items[Len(cart'.items)].notes = call'.arg.notes
                      /\ cart'.items[Len(cart'.items)].quantity = call'.arg.quantity]_vars

\* one more of an item was added to its existing line while the cart also has
\* a line of the same item with other notes
C8_Witness ==
    /\ call.op = "add_item_to_cart"
    /\ ret = "added"
    /\ call.arg.quantity = 1
    /\ Len(cart.items) = 2
    /\ cart.items[1].id = cart.items[2].id
    /\ cart.items[1].notes # cart.items[2].notes
    /\ \E i \in 1..2 : cart.items[i].notes = call.arg.notes /\ cart.items[i].quantity = 2

\* C9: complete_order writes an order file only when the cart has at least one
\* item and customer_name is set; invoked on an empty cart, or with items but
\* no customer name, it returns a rejection string, writes no file, emits
\* nothing and leaves the cart unchanged.
C9_CompleteOrderGate ==
    [][call'.op = "complete_order"
       => LET named == cart.customer_name # None /\ cart.customer_name # Some(<<>>)
          IN  /\ orders_dir' # orders_dir => (cart.items # <<>> /\ named)
              /\ (cart.items = <<>> \/ ~named)
                   => /\ ret' \in {"cart_empty", "need_name"}
                      /\ orders_dir' = orders_dir
                      /\ emitted' = <<>>
                      /\ cart' = cart]_vars

\* complete_order was refused on a cart with items and no customer name
C9_Witness ==
    /\ call.op = "complete_order"
    /\ ret = "need_name"
    /\ room
    /\ cart.items # <<>>
    /\ cart.customer_name = None
    /\ orders_dir.files = <<>>

----------------------------------------------------------------------------
(* Properties of the wellness and lead records *)

\* C10: complete_checkin and complete_call_and_save_lead perform the store
\* read-modify-write only when the domain's completion rule holds (wellness:
\* mood and energy level set and at least one daily objective; lead: name,
\* email and use case set); otherwise they return the missing-field prompt,
\* write nothing and leave the complete flag false.
C10_CompletionGatesPersistence ==
    [][/\ call'.op = "complete_checkin"
          => LET rule == /\ wellness_state.mood # None
                         /\ wellness_state.energy_level # None
                         /\ Len(wellness_state.daily_objectives) >= 1
             IN  /\ wellness_log_file' # wellness_log_file => rule
                 /\ ~rule => /\ ret' = "cover_missing"
                             /\ wellness_log_file' = wellness_log_file
                             /\ ~wellness_state'.check_in_complete
       /\ call'.op = "complete_call_and_save_lead"
          => LET rule == /\ lead_state.name # None
                         /\ lead_state.email # None
                         /\ lead_state.use_case # None
             IN  /\ leads_file' # leads_file => rule
                 /\ ~rule => /\ ret' = "before_we_wrap_up"
                             /\ leads_file' = leads_file
                             /\ ~lead_state'.call_complete]_vars

\* complete_checkin was refused on a record that has a mood and an energy
\* level and no daily objective
C10_Witness ==
    /\ call.op = "complete_checkin"
    /\ ret = "cover_missing"
    /\ wellness_state.mood # None
    /\ wellness_state.energy_level # None
    /\ wellness_state.daily_objectives = <<>>
    /\ wellness_state.stress_factors # <<>>

----------------------------------------------------------------------------
(* Properties of the completeness check *)

\* C11: for every reachable wellness and lead record get_missing_fields()
\* returns the empty list if and only if is_complete() is true, that is, iff
\* every required field of the domain (wellness: mood, energy level, daily
\* objectives; lead: name, email, use case) has been set.
C11_MissingEmptyIffComplete ==
    /\ agent = "wellness" =>
         /\ (WellnessMissingFields(wellness_state) = <<>>) <=> WellnessIsComplete(wellness_state)
         /\ WellnessIsComplete(wellness_state)
              <=> /\ wellness_state.mood # None
                  /\ wellness_state.energy_level # None
                  /\ wellness_state.daily_objectives # <<>>
    /\ agent = "sdr" =>
         /\ (LeadMissingFields(lead_state) = <<>>) <=> LeadIsComplete(lead_state)
         /\ LeadIsComplete(lead_state)
              <=> /\ lead_state.name # None
                  /\ lead_state.email # None
                  /\ lead_state.use_case # None

\* the tools that write one field of the record
WellnessUpdaters ==
    {"record_mood", "record_energy_level", "add_stress_factor", "add_daily_objective",
     "add_self_care_intention"}
LeadUpdaters ==
    {"record_lead_name", "record_lead_company", "record_lead_email", "record_use_case"}

\* a is b with some elements left out, the rest in the order of b
RECURSIVE IsSubList(_, _)
IsSubList(a, b) ==
    IF a = <<>> THEN TRUE
    ELSE IF b = <<>> THEN FALSE
    ELSE IF Head(a) = Head(b) THEN IsSubList(Tail(a), Tail(b))
    ELSE IsSubList(a, Tail(b))

\* C12: over every sequence of wellness or lead field-updater calls with no
\* reset in between the missing-field list never grows: the list returned by
\* get_missing_fields after a call is a sub-list of the one returned before it,
\* the remaining labels in the same declared order.
C12_MissingFieldsNeverGrow ==
    [][/\ call'.op \in WellnessUpdaters
          => IsSubList(WellnessMissingFields(wellness_state'),
                       WellnessMissingFields(wellness_state))
       /\ call'.op \in LeadUpdaters
          => IsSubList(LeadMissingFields(lead_state'), LeadMissingFields(lead_state))]_vars

----------------------------------------------------------------------------
(* Properties of the wellness and lead logs *)

\* t is s with every upper-case letter replaced by its lower-case letter
IsLowerCased(t, s) ==
    /\ Len(t) = Len(s)
    /\ \A i \in 1..Len(s) : t[i] = (IF s[i] = "A" THEN "a" ELSE s[i])

\* the record three calls record_mood, record_energy_level, add_daily_objective
\* leave behind when they start from a fresh record
AfterThreeCalls(w) ==
    /\ w.mood # None
    /\ w.energy_level # None
    /\ Len(w.daily_objectives) = 1
    /\ w.stress_factors = <<>>
    /\ w.self_care_intentions = <<>>
    /\ ~w.check_in_complete

C14_AppendedOnce ==
    [][/\ (call'.op = "complete_checkin" /\ wellness_state.check_in_complete)
          => wellness_log_file' = wellness_log_file
       /\ (call'.op = "complete_call_and_save_lead" /\ lead_state.call_complete)
          => leads_file' = leads_file]_vars

\* the complete operations' confirmation of a saved record
SavedResults == {"recap_saved", "order_placed"}

\* C15: the wellness and lead stores are append-only: for every state of the
\* store file and every outcome of reading it, a complete operation that
\* reports success leaves every previously stored entry in place and in order
\* and adds exactly one new entry at the end.
C15_AppendOnly ==
    [][/\ (call'.op = "complete_checkin" /\ ret' \in SavedResults)
          => /\ Len(wellness_log_file'.entries) = Len(wellness_log_file.entries) + 1
             /\ SubSeq(wellness_log_file'.entries, 1, Len(wellness_log_file.entries))
                  = wellness_log_file.entries
       /\ (call'.op = "complete_call_and_save_lead" /\ ret' \in SavedResults)
          => /\ Len(leads_file'.entries) = Len(leads_file.entries) + 1
             /\ SubSeq(leads_file'.entries, 1, Len(leads_file.entries))
                  = leads_file.entries]_vars

----------------------------------------------------------------------------
(* Properties of the handling of store failures *)

\* what a call that raised to its caller left in ret
Raised == {"raise KeyError", "raise OSError"}

\* C18: no persisting operation raises to its caller: complete_checkin,
\* complete_call_and_save_lead, complete_order and the fraud status updates
\* return a conversational string for every state of the store (file absent,
\* unparsable, valid JSON that lacks the expected list key, directory not
\* creatable, write refused).
C18_NoOperationRaises == ret \notin Raised

\* C20: when the store write fails in complete_checkin,
\* complete_call_and_save_lead or complete_order the in-memory record is not
\* rolled back or cleared: every field collected before the call keeps its
\* value, the cart keeps its lines, and the complete flag stays false.
C20_FailedWriteKeepsRecord ==
    [][/\ (/\ call'.op = "complete_checkin"
           /\ ~wellness_log_file.writable)
          => /\ wellness_state' = wellness_state
             /\ ~wellness_state'.check_in_complete
             /\ wellness_log_file' = wellness_log_file
       /\ (/\ call'.op = "complete_call_and_save_lead"
           /\ ~leads_file.writable)
          => /\ \A f \in (DOMAIN lead_state) \ {"conversation_summary"} :
                    lead_state'[f] = lead_state[f]
             /\ ~lead_state'.call_complete
             /\ leads_file' = leads_file
       /\ (/\ call'.op = "complete_order"
           /\ ~orders_dir.writable)
          => /\ cart' = cart
             /\ ~cart'.order_complete
             /\ orders_dir' = orders_dir]_vars

\* an order with items and a customer name could not be saved and the cart
\* still holds its lines
C20_Witness ==
    /\ call.op = "complete_order"
    /\ ret = "issue_saving"
    /\ ~orders_dir.writable
    /\ orders_dir.files = <<>>
    /\ cart.items # <<>>
    /\ cart.customer_name = Some(<<"a">>)
    /\ ~cart.order_complete

\* C17: a store write made by the fraud agent (failed verification or
\* confirmation) changes only the status and outcome of the first store entry
\* whose userName equals the loaded case's user name case-insensitively; every
\* other entry, every other field of that entry and the number of entries are
\* unchanged, for every state of the store file and every outcome of reading it.
C17_UpdateTouchesOneEntry ==
    [][(/\ call'.op \in {"verify_customer_identity", "record_transaction_confirmation"}
        /\ case_loaded)
        => LET old == fraud_cases_file.cases
               new == fraud_cases_file'.cases
               i == FirstMatch(old, fraud_case.user_name[1])
           IN  /\ Len(new) = Len(old)
               /\ \A j \in 1..Len(old) :
                     IF j = i
                     THEN new[j] = [old[j] EXCEPT !.status = new[j].status,
                                                  !.outcome = new[j].outcome]
                     ELSE new[j] = old[j]]_vars

\* what the persisting operations say when the record was saved
SuccessConfirmations == {"recap_saved", "order_placed", "marked_legitimate", "card_blocked"}

\* C19: whenever the persistence read or write fails inside an operation that
\* persists (complete_checkin, complete_call_and_save_lead, complete_order,
\* the fraud failed-verification and confirmation updates), the string returned
\* to the caller is the degraded response and not the success confirmation.
C19_FailureGivesDegradedResponse ==
    [][/\ (/\ call'.op = "record_transaction_confirmation"
           /\ fraud_case.verification_passed
           /\ (~fraud_cases_file.readable \/ ~fraud_cases_file.writable))
          => ret' \notin SuccessConfirmations
       /\ (/\ call'.op = "complete_checkin"
           /\ WellnessIsComplete(wellness_state)
           /\ (wellness_log_file.kind \in {"garbage", "unreadable"}
               \/ ~wellness_log_file.writable))
          => ret' \notin SuccessConfirmations
       /\ (/\ call'.op = "complete_call_and_save_lead"
           /\ LeadIsComplete(lead_state)
           /\ (leads_file.kind \in {"garbage", "unreadable"} \/ ~leads_file.writable))
          => ret' \notin SuccessConfirmations
       /\ (/\ call'.op = "complete_order"
           /\ OrderRefusal(cart) = ""
           /\ ~orders_dir.writable)
          => ret' \notin SuccessConfirmations]_vars

----------------------------------------------------------------------------
(* Properties of concurrent sessions *)

\* the sessions whose call reported that the record was saved
Saved == {s \in Sessions : sessions[s].ret = "recap_saved"}

\* C16: two sessions targeting the same store file concurrently can lose an
\* append.  The whole-file overwrite is last-writer-wins: once a session has
\* reported success the store holds exactly the document of one such session,
\* that is, the entries it had read and its own entry, so the entry of a
\* session that saved between that session's read and its overwrite is gone.
C16_LastWriterWins ==
    Saved # {} =>
        /\ SharedLog.kind = "ok"
        /\ \E t \in Saved :
              /\ SharedLog.entries = sessions[t].log
              /\ sessions[t].log[Len(sessions[t].log)] = SessionEntry(t)

\* both sessions reported success and the store holds the older entry and only
\* one of the two new entries
C16_Witness ==
    /\ Saved = Sessions
    /\ Len(SharedLog.entries) = 2
    /\ SharedLog.entries[1] = OldEntry
    /\ \E s \in Sessions : SharedLog.entries[2] = SessionEntry(s)
    /\ \E s \in Sessions : \A i \in 1..Len(SharedLog.entries) :
          SharedLog.entries[i] # SessionEntry(s)

----------------------------------------------------------------------------
\* C21: a publish that raises changes neither the returned string nor the
\* record left behind nor what was persisted: while the room's publish_data
\* raises, a field updater still acknowledges, and a completion that wrote
\* its record to the store returns its confirmation and leaves the record
\* completed (check_in_complete, call_complete set, the cart replaced by a
\* fresh one), exactly as it does when the publish goes through.
C21_PublishFireAndForget ==
    [][(room /\ publish_raises) =>
        /\ call'.op \in {"record_mood", "record_energy_level", "add_daily_objective",
                          "record_lead_name", "record_lead_email", "record_use_case",
                          "get_customer_info"}
              => ret' \in {"acknowledged", "got_it_delivering", "thanks_name"}
        /\ (call'.op = "complete_checkin" /\ wellness_log_file' # wellness_log_file)
              => ret' = "recap_saved" /\ wellness_state'.check_in_complete
        /\ (call'.op = "complete_call_and_save_lead" /\ leads_file' # leads_file)
              => ret' = "recap_saved" /\ lead_state'.call_complete
        /\ (call'.op = "complete_order" /\ orders_dir' # orders_dir)
              => ret' = "order_placed" /\ cart' = CartState]_vars

----------------------------------------------------------------------------
----------------------------------------------------------------------------
\* C23 as stated: a complete_checkin or complete_call_and_save_lead that
\* persisted the record leaves the in-memory record empty, as complete_order
\* leaves the cart.
C23_CompletionResetsRecord ==
    [][/\ (call'.op = "complete_checkin" /\ ret' = "recap_saved")
            => wellness_state' = WellnessState
       /\ (call'.op = "complete_call_and_save_lead" /\ ret' = "recap_saved")
            => lead_state' = LeadState]_vars

\* C23, amended: a complete_checkin or complete_call_and_save_lead that
\* persisted the record keeps every collected field of the in-memory record
\* and sets its complete flag; the wellness record is emptied by
\* start_new_checkin only, and the lead record's call_complete flag is never
\* cleared again.
C23_CompletionKeepsRecord ==
    [][/\ (call'.op = "complete_checkin" /\ ret' = "recap_saved")
            => /\ wellness_log_file' # wellness_log_file
               /\ wellness_state'.check_in_complete
               /\ wellness_state'.mood # None
               /\ \A f \in DOMAIN wellness_state \ {"check_in_complete"} :
                     wellness_state'[f] = wellness_state[f]
       /\ (call'.op = "complete_call_and_save_lead" /\ ret' = "recap_saved")
            => /\ leads_file' # leads_file
               /\ lead_state'.call_complete
               /\ lead_state'.name # None
               /\ \A f \in DOMAIN lead_state \ {"call_complete", "conversation_summary"} :
                     lead_state'[f] = lead_state[f]
       /\ (agent = "wellness" /\ wellness_state # WellnessState /\ wellness_state' = WellnessState)
            => call'.op = "start_new_checkin"
       /\ (agent = "sdr" /\ lead_state.call_complete) => lead_state'.call_complete]_vars

\* a check-in was saved and its record is still in memory
C23_Witness ==
    /\ call.op = "complete_checkin"
    /\ ret = "recap_saved"
    /\ wellness_state.check_in_complete
    /\ Truthy(wellness_state.mood)
    /\ wellness_state.daily_objectives # <<>>
    /\ Len(wellness_log_file.entries) = 1

----------------------------------------------------------------------------
\* the list field an add_* tool of the wellness agent appends to
WellnessListOf ==
    [add_stress_factor |-> "stress_factors",
     add_daily_objective |-> "daily_objectives",
     add_self_care_intention |-> "self_care_intentions"]

\* C24: in every reachable wellness record stress_factors, daily_objectives
\* and self_care_intentions hold no two equal entries and no upper-case
\* letter, and an add_* call whose value equals an entry of its list up to
\* case leaves the length of the list unchanged and is still acknowledged.
C24_ListsAreLowerCasedSets ==
    /\ [](agent = "wellness" =>
            \A op \in DOMAIN WellnessListOf :
               LET list == wellness_state[WellnessListOf[op]]
               IN  /\ \A i, j \in 1..Len(list) : list[i] = list[j] => i = j
                   /\ \A i \in 1..Len(list) : \A k \in 1..Len(list[i]) : list[i][k] # "A")
    /\ [][call'.op \in DOMAIN WellnessListOf =>
            LET f == WellnessListOf[call'.op]
            IN  (\E i \in 1..Len(wellness_state[f]) :
                    IsLowerCased(wellness_state[f][i], call'.arg))
                => /\ Len(wellness_state'[f]) = Len(wellness_state[f])
                   /\ ret' = "acknowledged"]_vars

\* add_stress_factor("A") was acknowledged and stress_factors holds "a" once
C24_Witness ==
    /\ call = [op |-> "add_stress_factor", arg |-> <<"A">>]
    /\ ret = "acknowledged"
    /\ wellness_state.stress_factors = << <<"a">> >>
    /\ wellness_state.daily_objectives = << <<"a">> >>

----------------------------------------------------------------------------
\* C27: CartState.update_quantity(id, n) with n <= 0 leaves the cart in
\* exactly the state remove_item(id) would: no line with that id remains,
\* whatever its notes, every other line is kept as it was and in its place,
\* and nothing else of the cart changes.
C27_NonPositiveQuantityRemoves ==
    [][(call'.op = "update_quantity" /\ call'.arg.new_quantity <= 0)
        => LET id == call'.arg.item_id
               kept == {i \in 1..Len(cart.items) : cart.items[i].id # id}
           IN  /\ cart'.items = RemoveItem(cart.items, id)
               /\ \A i \in 1..Len(cart'.items) : cart'.items[i].id # id
               /\ Len(cart'.items) = Cardinality(kept)
               /\ \A i \in kept :
                     cart'.items[Cardinality({j \in kept : j <= i})] = cart.items[i]
               /\ cart' = [cart EXCEPT !.items = cart'.items]]_vars

\* update_quantity("bread", 0) was called and the cart is left with its line
\* of milk with a note
C27_Witness ==
    /\ call = [op |-> "update_quantity", arg |-> [item_id |-> "bread", new_quantity |-> 0]]
    /\ Len(cart.items) = 1
    /\ cart.items[1].id = "milk"
    /\ cart.items[1].notes = <<"a">>
    /\ cart.items[1].quantity = 2

----------------------------------------------------------------------------
(* Properties of the lead's timeline and of the FAQ search *)

\* w occurs in s once the upper-case letters of s are lowered
OccursLowered(w, s) ==
    \E k \in 0..(Len(s) - Len(w)) : \A i \in 1..Len(w) : LowerChar(s[k + i]) = w[i]

\* C29: record_timeline sets timeline to now when the lower-cased input
\* contains one of now, immediate, urgent, asap, today; otherwise to soon when
\* it contains one of soon, week, month, next; otherwise to later. An input
\* of both classes gives now; "right now please" gives now, "maybe next
\* month" soon and "just curious" later; and timeline never holds anything
\* but unset, now, soon or later.
C29_TimelineNormalized ==
    /\ [](agent = "sdr" =>
            lead_state.timeline \in {None, Some(<<"n", "o", "w">>), Some(<<"s", "o", "o", "n">>), Some(<<"l", "a", "t", "e", "r">>)})
    /\ [][call'.op = "record_timeline" =>
            LET t == call'.arg
                now == \E w \in {<<"n", "o", "w">>,
                                  <<"i", "m", "m", "e", "d", "i", "a", "t", "e">>,
                                  <<"u", "r", "g", "e", "n", "t">>,
                                  <<"a", "s", "a", "p">>,
                                  <<"t", "o", "d", "a", "y">>} : OccursLowered(w, t)
                soon == \E w \in {<<"s", "o", "o", "n">>, <<"w", "e", "e", "k">>,
                                   <<"m", "o", "n", "t", "h">>, <<"n", "e", "x", "t">>} :
                           OccursLowered(w, t)
            IN  /\ now => lead_state'.timeline = Some(<<"n", "o", "w">>)
                /\ (~now /\ soon) => lead_state'.timeline = Some(<<"s", "o", "o", "n">>)
                /\ (~now /\ ~soon) => lead_state'.timeline = Some(<<"l", "a", "t", "e", "r">>)
                /\ t = <<"r", "i", "g", "h", "t", " ", "n", "o", "w", " ", "p", "l", "e", "a", "s", "e">>
                      => lead_state'.timeline = Some(<<"n", "o", "w">>)
                /\ t = <<"m", "a", "y", "b", "e", " ", "n", "e", "x", "t", " ", "m", "o", "n", "t", "h">>
                      => lead_state'.timeline = Some(<<"s", "o", "o", "n">>)
                /\ t = <<"j", "u", "s", "t", " ", "c", "u", "r", "i", "o", "u", "s">>
                      => lead_state'.timeline = Some(<<"l", "a", "t", "e", "r">>)]_vars

\* "next week not now", an input of both classes, was recorded as now
C29_Witness ==
    /\ call = [op |-> "record_timeline",
               arg |-> <<"n", "e", "x", "t", " ", "w", "e", "e", "k", " ", "n", "o", "t", " ", "n", "o", "w">>]
    /\ lead_state.timeline = Some(<<"n", "o", "w">>)
    /\ ret = "set_up_very_quickly"

\* the words of s: the maximal runs without a blank, as pairs of positions
WordsAt(s) ==
    {p \in (1..Len(s)) \X (1..Len(s)) :
        /\ p[1] <= p[2]
        /\ \A i \in p[1]..p[2] : s[i] # " "
        /\ p[1] = 1 \/ s[p[1] - 1] = " "
        /\ p[2] = Len(s) \/ s[p[2] + 1] = " "}

\* 2 for each keyword the query contains and 1 for each word of the question
\* that is longer than 3 characters and that the query contains, both compared
\* in lower case
ExpectedScore(item, query) ==
    2 * Cardinality({k \in 1..Len(item.keywords) :
                       OccursLowered(Lower(item.keywords[k]), query)})
    + Cardinality({p \in WordsAt(item.question) :
                     /\ p[2] - p[1] + 1 > 3
                     /\ OccursLowered(Lower(SubSeq(item.question, p[1], p[2])), query)})

\* C30: search_faq returns no match exactly when every FAQ entry scores 0
\* for the query, and otherwise the first entry in file order among those
\* with the maximum score, the score being 2 per keyword contained in the
\* query plus 1 per question word longer than 3 characters contained in the
\* query; "what are your fees" is answered by the entry with the keywords
\* pricing and fees.
C30_SearchFaqBestMatch ==
    [][call'.op = "answer_company_question" =>
        LET query == call'.arg
            score == [i \in 1..Len(FaqItems) |-> ExpectedScore(FaqItems[i], query)]
        IN  /\ (ret' = "company_overview") <=> (\A i \in 1..Len(FaqItems) : score[i] = 0)
            /\ (\E i \in 1..Len(FaqItems) : score[i] > 0)
                  => \E i \in 1..Len(FaqItems) :
                        /\ ret' = FaqItems[i].answer
                        /\ \A j \in 1..Len(FaqItems) : score[j] <= score[i]
                        /\ \A j \in 1..(i - 1) : score[j] < score[i]
            /\ query = <<"w", "h", "a", "t", " ", "a", "r", "e", " ", "y", "o", "u", "r", " ", "f", "e", "e", "s">>
                  => ret' = "answer_fees" /\ score[1] >= 2]_vars

\* "what your" scores 2 for the first and for the second entry, and the
\* first was returned
C30_Witness ==
    /\ call = [op |-> "answer_company_question", arg |-> <<"w", "h", "a", "t", " ", "y", "o", "u", "r">>]
    /\ ret = "answer_fees"
    /\ ExpectedScore(FaqItems[1], call.arg) = 2
    /\ ExpectedScore(FaqItems[2], call.arg) = 2

----------------------------------------------------------------------------
(* Properties of the list fields and of the field updaters *)

\* no two strings of the list are equal up to case
NoTwoEqual(list) ==
    \A i, j \in 1..Len(list) : Lower(list[i]) = Lower(list[j]) => i = j

\* no two {name, description} entries of the list are equal up to case
NoTwoEqualEntries(list) ==
    \A i, j \in 1..Len(list) :
       (/\ Lower(list[i].name) = Lower(list[j].name)
        /\ Lower(list[i].description) = Lower(list[j].description)) => i = j

\* C25: the lead's questions_asked and the adventure's npcs_met, items_found
\* and key_events never hold two entries that are equal up to case, and a
\* call that adds a value its list already holds up to case leaves the list
\* as it is.
C25_ListsAreSetsByValue ==
    /\ [](/\ agent = "sdr" => NoTwoEqual(lead_state.questions_asked)
          /\ agent = "gm" =>
                /\ NoTwoEqualEntries(story_state.npcs_met)
                /\ NoTwoEqualEntries(story_state.items_found)
                /\ NoTwoEqual(story_state.key_events))
    /\ [][/\ (/\ call'.op = "answer_company_question"
               /\ \E i \in 1..Len(lead_state.questions_asked) :
                     Lower(lead_state.questions_asked[i]) = Lower(call'.arg))
              => lead_state'.questions_asked = lead_state.questions_asked
          /\ (/\ call'.op = "record_key_event"
               /\ \E i \in 1..Len(story_state.key_events) :
                     Lower(story_state.key_events[i]) = Lower(call'.arg))
              => story_state'.key_events = story_state.key_events]_vars

\* the record the tools of the session's agent collect
SessionRecord ==
    IF agent = "wellness" THEN wellness_state
    ELSE IF agent = "sdr" THEN lead_state
    ELSE IF agent = "gm" THEN story_state
    ELSE cart

\* the field a wellness or lead updater writes
FieldOf ==
    [record_mood |-> "mood", record_energy_level |-> "energy_level",
     add_stress_factor |-> "stress_factors", add_daily_objective |-> "daily_objectives",
     add_self_care_intention |-> "self_care_intentions",
     record_lead_name |-> "name", record_lead_company |-> "company",
     record_lead_email |-> "email", record_lead_role |-> "role",
     record_use_case |-> "use_case", record_team_size |-> "team_size",
     record_timeline |-> "timeline"]

\* the fields an adventure updater writes
StoryFieldsOf ==
    [record_location |-> {"location", "key_events"},
     record_npc_encounter |-> {"npcs_met", "key_events"},
     record_item_found |-> {"items_found", "key_events"},
     record_key_event |-> {"key_events", "turn_count"}]

\* C26 as stated: each wellness record_*/add_* tool, lead record_* tool,
\* adventure record_* tool and get_customer_info changes one field of its
\* Session Record at most and leaves every other field unchanged.
C26_UpdaterChangesOneField ==
    [][call'.op \in DOMAIN FieldOf \cup DOMAIN StoryFieldsOf \cup {"get_customer_info"}
        => Cardinality({f \in DOMAIN SessionRecord : SessionRecord'[f] # SessionRecord[f]}) <= 1]_vars

\* C26, amended: a wellness record_*/add_* tool and a lead record_* tool
\* change no field but their own; get_customer_info writes customer_name and,
\* when an address is given, customer_address; record_location writes
\* location and appends a key event; record_npc_encounter and
\* record_item_found append to their list and to key_events together or to
\* neither; record_key_event appends to key_events and adds 1 to turn_count;
\* no updater touches a store.
C26_UpdaterFrame ==
    [][LET changed == {f \in DOMAIN SessionRecord : SessionRecord'[f] # SessionRecord[f]}
           op == call'.op
       IN  /\ op \in DOMAIN FieldOf => changed \subseteq {FieldOf[op]}
           /\ op = "get_customer_info"
                => /\ changed \subseteq {"customer_name", "customer_address"}
                   /\ cart'.customer_name = Some(call'.arg.name)
                   /\ call'.arg.address = <<>> => "customer_address" \notin changed
           /\ op \in DOMAIN StoryFieldsOf => changed \subseteq StoryFieldsOf[op]
           /\ op = "record_location"
                => /\ story_state'.location = Some(call'.arg)
                   /\ Len(story_state'.key_events) = Len(story_state.key_events) + 1
           /\ op \in {"record_npc_encounter", "record_item_found"}
                => ("key_events" \in changed <=> changed # {})
           /\ op = "record_key_event"
                => /\ story_state'.key_events = Append(story_state.key_events, call'.arg)
                   /\ story_state'.turn_count = story_state.turn_count + 1
           /\ op \in DOMAIN FieldOf \cup DOMAIN StoryFieldsOf \cup {"get_customer_info"}
                => UNCHANGED <<wellness_log_file, leads_file, orders_dir>>]_vars

\* record_key_event was called in an adventure that had moved to a location
C26_Witness ==
    /\ call.op = "record_key_event"
    /\ story_state.location = Some(<<"a">>)
    /\ story_state.turn_count = 1
    /\ Len(story_state.key_events) = 2
    /\ story_state.key_events[2] = call.arg

\* C28: CommerceAgent.place_order creates and persists an order only when
\* the cart is non-empty and a customer name is given, and otherwise writes
\* nothing and leaves the cart unchanged.
C28_PlaceOrderGate ==
    [][call'.op = "place_order"
        => LET named == call'.arg.customer_name # <<>>
           IN  /\ order_manager' # order_manager => (cart_items # <<>> /\ named)
               /\ (cart_items = <<>> \/ ~named)
                    => /\ order_manager' = order_manager
                       /\ cart_items' = cart_items]_vars

----------------------------------------------------------------------------
(* Teach-the-tutor coordinator (tutor_agent.py).  A concept is the record   *)
(* of its id; title, summary and sample question only appear in the text    *)
(* that is returned.                                                        *)

tutorFrame ==
    <<agent, room, fraudVars, foodVars, wellnessVars, leadVars, sessions, publish_raises,
      storyVars, commerceVars, improvVars>>

\* the concepts of shared-data/day4_tutor_content.json
StandardConcepts ==
    <<[id |-> "variables"], [id |-> "loops"], [id |-> "functions"], [id |-> "conditionals"]>>

\* what the content file may hold when the agent is constructed: nothing (no
\* file), text that is not JSON, a JSON list of concepts, or a JSON object
\* (value: its keys)
ContentFiles ==
    {[kind |-> "absent", value |-> <<>>],
     [kind |-> "garbage", value |-> <<>>],
     [kind |-> "list", value |-> StandardConcepts],
     [kind |-> "list", value |-> Append(StandardConcepts, [id |-> "recursion"])],
     [kind |-> "object", value |-> <<"concepts">>]}

\* TutorContent._load_content: json.load's value, [] when open or json.load raises
LoadContent(file) ==
    IF file.kind \in {"absent", "garbage"} THEN [type |-> "list", items |-> <<>>]
    ELSE [type |-> file.kind, items |-> file.value]

\* TutorContent.__init__
TutorContent(file) == [content_file |-> file, concepts |-> LoadContent(file)]

\* get_concept: concept['id'] on a key of a JSON object raises TypeError
GetConceptRaises(content) ==
    content.concepts.type = "object" /\ content.concepts.items # <<>>

\* get_concept: the first concept whose id is concept_id, or None
GetConcept(content, concept_id) ==
    LET items == content.concepts.items
        hits == {i \in 1..Len(items) : items[i].id = concept_id}
    IN  IF hits = {} THEN None
        ELSE Some(items[CHOOSE i \in hits : \A j \in hits : i <= j])

\* lines 125-126: the mode _send_mode_change reads from self.current_mode; it
\* was assigned before the call
ModeAtSendBeforeAssignment(before, assigned) == before
ModeAtSend(before, assigned) == assigned

ConceptId(concept) == IF concept # None THEN Some(concept[1].id) ELSE None

\* _send_mode_change, called when self.current_mode is mode
SendModeChange(new_mode, mode, concept) ==
    IF room /\ ~publish_raises
    THEN <<[type |-> "mode_change", new_mode |-> new_mode, previous_mode |-> mode,
            data |-> [concept_id |-> ConceptId(concept)]]>>
    ELSE <<>>

\* _send_tutor_update, called when self.current_mode is mode
SendTutorUpdate(activity, score, mode, concept) ==
    IF room /\ ~publish_raises
    THEN <<[type |-> "tutor_update", mode |-> mode,
            data |-> [activity |-> activity, score |-> score,
                      concept_id |-> ConceptId(concept), current_concept |-> concept]]>>
    ELSE <<>>

\* lines 122-141: the concept a mode switch leaves
ConceptAfterSwitchCleared(concept) == None
ConceptAfterSwitch(concept) == concept

SwitchMode(op, mode, result) ==
    /\ agent = "tutor"
    /\ call' = [op |-> op, arg |-> None]
    /\ current_mode' = mode
    /\ current_concept' = ConceptAfterSwitch(current_concept)
    /\ emitted' = SendModeChange(mode, ModeAtSend(current_mode, mode), current_concept')
    /\ ret' = result
    /\ UNCHANGED tutor_content
    /\ UNCHANGED tutorFrame

switch_to_learn_mode == SwitchMode("switch_to_learn_mode", "learn", "switching_to_learn")
switch_to_quiz_mode == SwitchMode("switch_to_quiz_mode", "quiz", "switching_to_quiz")
switch_to_teach_back_mode ==
    SwitchMode("switch_to_teach_back_mode", "teach_back", "switching_to_teach_back")

\* the tools that only read: explain_learning_modes, get_current_mode,
\* list_available_concepts
TutorInfo(op, result) ==
    /\ agent = "tutor"
    /\ call' = [op |-> op, arg |-> None]
    /\ ret' = result
    /\ emitted' = <<>>
    /\ UNCHANGED tutorVars
    /\ UNCHANGED tutorFrame

explain_learning_modes == TutorInfo("explain_learning_modes", "three_learning_modes")
get_current_mode ==
    TutorInfo("get_current_mode",
              IF current_mode # "coordinator" THEN "currently_in_mode" ELSE "no_mode_selected")
list_available_concepts ==
    TutorInfo("list_available_concepts",
              IF GetConceptRaises(tutor_content) THEN "raise TypeError" ELSE "concept_list")

\* explain_concept, ask_question_about_concept and request_explanation
StartOnConcept(op, concept_id, mode, missing, activity, result) ==
    /\ agent = "tutor"
    /\ call' = [op |-> op, arg |-> concept_id]
    /\ IF GetConceptRaises(tutor_content)
       THEN /\ ret' = "raise TypeError"
            /\ emitted' = <<>>
            /\ UNCHANGED tutorVars
       ELSE LET concept == GetConcept(tutor_content, concept_id)
            IN  IF concept = None
                THEN /\ ret' = missing
                     /\ emitted' = <<>>
                     /\ UNCHANGED tutorVars
                ELSE /\ current_concept' = concept
                     /\ current_mode' = mode
                     /\ emitted' = SendModeChange(mode, ModeAtSend(current_mode, mode), concept)
                                   \o SendTutorUpdate(activity, None, mode, concept)
                     /\ ret' = result
                     /\ UNCHANGED tutor_content
    /\ UNCHANGED tutorFrame

explain_concept(concept_id) ==
    StartOnConcept("explain_concept", concept_id, "learn", "no_information_about",
                   "started_learning", "explanation")
ask_question_about_concept(concept_id) ==
    StartOnConcept("ask_question_about_concept", concept_id, "quiz", "no_quiz_questions_about",
                   "started_quiz", "heres_your_question")
request_explanation(concept_id) ==
    StartOnConcept("request_explanation", concept_id, "teach_back", "no_information_about",
                   "started_teach_back", "explain_to_me")

\* lines 227-232: key_points of evaluate_answer
QuizKeyPoints ==
    [variables |-> <<<<"s", "t", "o", "r", "e">>, <<"c", "o", "n", "t", "a", "i", "n", "e", "r">>,
         <<"d", "a", "t", "a">>, <<"v", "a", "l", "u", "e">>, <<"r", "e", "u", "s", "e">>>>,
     loops |-> <<<<"r", "e", "p", "e", "a", "t">>, <<"i", "t", "e", "r", "a", "t", "i", "o", "n">>,
         <<"f", "o", "r">>, <<"w", "h", "i", "l", "e">>,
         <<"c", "o", "n", "d", "i", "t", "i", "o", "n">>>>,
     functions |-> <<<<"r", "e", "u", "s", "a", "b", "l", "e">>,
         <<"p", "a", "r", "a", "m", "e", "t", "e", "r", "s">>, <<"r", "e", "t", "u", "r", "n">>,
         <<"o", "r", "g", "a", "n", "i", "z", "e">>, <<"b", "l", "o", "c", "k">>>>,
     conditionals |-> <<<<"d", "e", "c", "i", "s", "i", "o", "n">>, <<"i", "f">>,
         <<"c", "o", "n", "d", "i", "t", "i", "o", "n">>, <<"t", "r", "u", "e">>,
         <<"f", "a", "l", "s", "e">>>>]

\* lines 291-296: key_points of provide_feedback
TeachBackKeyPoints ==
    [variables |-> <<<<"s", "t", "o", "r", "e">>, <<"d", "a", "t", "a">>, <<"v", "a", "l", "u", "e">>,
         <<"c", "o", "n", "t", "a", "i", "n", "e", "r">>, <<"r", "e", "u", "s", "e">>,
         <<"n", "a", "m", "e">>>>,
     loops |-> <<<<"r", "e", "p", "e", "a", "t">>, <<"i", "t", "e", "r", "a", "t", "i", "o", "n">>,
         <<"f", "o", "r">>, <<"w", "h", "i", "l", "e">>,
         <<"c", "o", "n", "d", "i", "t", "i", "o", "n">>,
         <<"m", "u", "l", "t", "i", "p", "l", "e">>>>,
     functions |-> <<<<"r", "e", "u", "s", "a", "b", "l", "e">>,
         <<"p", "a", "r", "a", "m", "e", "t", "e", "r", "s">>, <<"r", "e", "t", "u", "r", "n">>,
         <<"o", "r", "g", "a", "n", "i", "z", "e">>, <<"i", "n", "p", "u", "t">>,
         <<"o", "u", "t", "p", "u", "t">>>>,
     conditionals |-> <<<<"d", "e", "c", "i", "s", "i", "o", "n">>, <<"i", "f">>,
         <<"c", "o", "n", "d", "i", "t", "i", "o", "n">>, <<"t", "r", "u", "e">>,
         <<"f", "a", "l", "s", "e">>, <<"b", "r", "a", "n", "c", "h">>>>]

\* lines 236-239 and 300-303: the keywords that occur in the lower-cased text,
\* and the score as the pair of the two lengths that are divided (0 when the
\* concept has no keywords)
MatchedKeywords(key_points, concept_id, text) ==
    IF concept_id \in DOMAIN key_points
    THEN SelectSeq(key_points[concept_id], LAMBDA keyword : Contains(keyword, Lower(text)))
    ELSE <<>>
Score(key_points, concept_id, text) ==
    IF concept_id \in DOMAIN key_points
    THEN <<Len(MatchedKeywords(key_points, concept_id, text)), Len(key_points[concept_id])>>
    ELSE <<0, 1>>

\* score >= num / den
AtLeast(score, num, den) == score[1] * den >= num * score[2]

\* lines 310-319: the tiers of provide_feedback
FeedbackTier(score) ==
    IF AtLeast(score, 7, 10) THEN "excellent_job"
    ELSE IF AtLeast(score, 4, 10) THEN "good_explanation"
    ELSE "thinking_about"
\* lines 244-252: the tiers of evaluate_answer
AnswerTierOfFeedback(score) ==
    IF AtLeast(score, 7, 10) THEN "excellent_answer"
    ELSE IF AtLeast(score, 4, 10) THEN "good_start"
    ELSE "good_attempt"
AnswerTier(score) ==
    IF AtLeast(score, 1, 2) THEN "excellent_answer"
    ELSE IF AtLeast(score, 1, 4) THEN "good_start"
    ELSE "good_attempt"

evaluate_answer(user_answer) ==
    /\ agent = "tutor"
    /\ call' = [op |-> "evaluate_answer", arg |-> user_answer]
    /\ IF current_concept = None
       THEN /\ ret' = "havent_asked_a_question"
            /\ emitted' = <<>>
       ELSE LET score == Score(QuizKeyPoints, current_concept[1].id, user_answer)
            IN  /\ emitted' = SendTutorUpdate("answered_question", Some(score), current_mode,
                                              current_concept)
                /\ ret' = AnswerTier(score)
    /\ UNCHANGED tutorVars
    /\ UNCHANGED tutorFrame

provide_feedback(user_explanation) ==
    /\ agent = "tutor"
    /\ call' = [op |-> "provide_feedback", arg |-> user_explanation]
    /\ IF current_concept = None
       THEN /\ ret' = "havent_asked_to_explain"
            /\ emitted' = <<>>
       ELSE LET coverage_score ==
                    Score(TeachBackKeyPoints, current_concept[1].id, user_explanation)
            IN  /\ emitted' = SendTutorUpdate("explained_in_teach_back", Some(coverage_score),
                                              current_mode, current_concept)
                /\ ret' = FeedbackTier(coverage_score)
    /\ UNCHANGED tutorVars
    /\ UNCHANGED tutorFrame

\* concept ids a learner names: with keywords, in the larger content file only,
\* and in no file
ConceptIds == {"variables", "loops", "conditionals", "recursion", "Variables"}

\* what a learner answers: from no keyword of "variables" to five of them, and
\* a sentence in which "if" occurs inside a word
UserAnswers ==
    {<<>>,
     <<"S", "t", "o", "r", "e">>,
     <<"s", "t", "o", "r", "e", " ", "d", "a", "t", "a">>,
     <<"s", "t", "o", "r", "e", " ", "d", "a", "t", "a", " ", "v", "a", "l", "u", "e">>,
     <<"s", "t", "o", "r", "e", " ", "d", "a", "t", "a", " ", "v", "a", "l", "u", "e", " ", "c", "o", "n", "t", "a", "i", "n", "e", "r">>,
     <<"s", "t", "o", "r", "e", " ", "d", "a", "t", "a", " ", "v", "a", "l", "u", "e", " ", "c", "o", "n", "t", "a", "i", "n", "e", "r", " ", "r", "e", "u", "s", "e">>,
     <<"a", " ", "d", "i", "f", "f", "e", "r", "e", "n", "t", " ", "c", "o", "n", "d", "i", "t", "i", "o", "n">>}

TutorModes ==
    \/ switch_to_learn_mode
    \/ switch_to_quiz_mode
    \/ switch_to_teach_back_mode
    \/ explain_learning_modes
    \/ get_current_mode
    \/ list_available_concepts

TutorNext ==
    \/ TutorModes
    \/ \E concept_id \in ConceptIds : explain_concept(concept_id)
    \/ \E concept_id \in ConceptIds : ask_question_about_concept(concept_id)
    \/ \E concept_id \in ConceptIds : request_explanation(concept_id)
    \/ \E user_answer \in UserAnswers : evaluate_answer(user_answer)
    \/ \E user_explanation \in UserAnswers : provide_feedback(user_explanation)

\* TutorCoordinatorAgent.__init__ on content file `files`
TutorInit(files) ==
    /\ agent = "tutor"
    /\ room = FALSE
    /\ call = [op |-> "__init__", arg |-> None]
    /\ ret = "None"
    /\ emitted = <<>>
    /\ fraud_case = None /\ case_loaded = FALSE /\ fraud_cases_file = None
    /\ cart = None /\ orders_dir = None
    /\ wellness_state = None /\ wellness_log_file = None
    /\ lead_state = None /\ leads_file = None
    /\ sessions = None
    /\ publish_raises = FALSE
    /\ story_state = None
    /\ cart_items = None /\ order_manager = None
    /\ current_mode = "coordinator"
    /\ current_concept = None
    /\ tutor_content \in {TutorContent(file) : file \in files}
    /\ ImprovIdle

\* a tutoring session on a content file that holds a list of concepts
TutorSession == TutorInit({file \in ContentFiles : file.kind = "list"})
TutorTools == set_room \/ TutorNext
SpecTutor == TutorSession /\ [][TutorTools]_vars

\* a tutoring session in which no question has been asked: of the concepts a
\* learner names to ask_question_about_concept none is in the content file
TutorToolsBeforeQuiz ==
    \/ set_room
    \/ TutorModes
    \/ \E concept_id \in ConceptIds : explain_concept(concept_id)
    \/ \E concept_id \in {"Variables"} : ask_question_about_concept(concept_id)
    \/ \E concept_id \in ConceptIds : request_explanation(concept_id)
    \/ \E user_answer \in UserAnswers : evaluate_answer(user_answer)
    \/ \E user_explanation \in UserAnswers : provide_feedback(user_explanation)
SpecTutorBeforeQuiz == TutorSession /\ [][TutorToolsBeforeQuiz]_vars

\* a tutoring session on a content file in any condition
TutorContentSession == TutorInit(ContentFiles)
SpecTutorContent == TutorContentSession /\ [][TutorTools]_vars

----------------------------------------------------------------------------
(* Improv battle host (improv_agent.py) *)

improvFrame ==
    <<agent, room, fraudVars, foodVars, wellnessVars, leadVars, sessions, publish_raises,
      storyVars, commerceVars, tutorVars>>

\* __init__ and restart_game: the state of a fresh game of player_name
ImprovState(player_name) ==
    [player_name |-> player_name, current_round |-> 0, max_rounds |-> 3, rounds |-> <<>>,
     phase |-> "intro"]

\* self.scenarios by index; random.choice picks any of them
Scenarios == 1..NumScenarios

SendImprovUpdate(st) ==
    IF room /\ ~publish_raises THEN <<[type |-> "improv_update", data |-> st]>> ELSE <<>>

\* a tool that assigns the state, publishes it and returns
ImprovUpdate(op, arg, st, result) ==
    /\ agent = "improv"
    /\ call' = [op |-> op, arg |-> arg]
    /\ improv_state' = st
    /\ emitted' = SendImprovUpdate(st)
    /\ ret' = result
    /\ UNCHANGED improvFrame

\* lines 102-105 of start_improv_battle: the name is kept unless one is given
BattleStarted(st, player_name) ==
    [st EXCEPT !.player_name = IF Truthy(player_name) THEN player_name ELSE @,
               !.phase = "intro"]

start_improv_battle(player_name) ==
    ImprovUpdate("start_improv_battle", player_name,
                 BattleStarted(improv_state, player_name), "welcome_to_improv_battle")

set_player_name(name) ==
    ImprovUpdate("set_player_name", name, [improv_state EXCEPT !.player_name = Some(name)],
                 "great_to_meet_you")

end_show ==
    ImprovUpdate("end_show", None, [improv_state EXCEPT !.phase = "done"], "closing_summary")

\* line 134: no round is left to play
RoundsPlayedPastMax(st) == st.current_round > st.max_rounds
RoundsPlayed(st) == st.current_round >= st.max_rounds

\* at the last round start_next_round returns end_show's result
start_next_round(scenario) ==
    IF RoundsPlayed(improv_state)
    THEN ImprovUpdate("start_next_round", None, [improv_state EXCEPT !.phase = "done"],
                      "closing_summary")
    ELSE ImprovUpdate("start_next_round", None,
                      [improv_state EXCEPT
                          !.current_round = @ + 1,
                          !.phase = "awaiting_improv",
                          !.rounds = Append(@, [scenario |-> scenario, host_reaction |-> <<>>])],
                      "round_intro")

react_to_performance(reaction) ==
    ImprovUpdate("react_to_performance", reaction,
                 [improv_state EXCEPT
                     !.rounds = IF @ # <<>>
                                THEN [@ EXCEPT ![Len(@)].host_reaction = reaction] ELSE @,
                     !.phase = "reacting"],
                 IF RoundsPlayed(improv_state) THEN "wraps_up_final_round"
                 ELSE "ready_for_next_challenge")

handle_early_exit ==
    ImprovUpdate("handle_early_exit", None, [improv_state EXCEPT !.phase = "done"],
                 "thanks_for_playing")

get_game_status ==
    /\ agent = "improv"
    /\ call' = [op |-> "get_game_status", arg |-> None]
    /\ ret' = "status"
    /\ emitted' = <<>>
    /\ UNCHANGED improv_state
    /\ UNCHANGED improvFrame

\* the fresh state is published, and once more by start_improv_battle
restart_game ==
    LET fresh == ImprovState(improv_state.player_name)
        st == BattleStarted(fresh, fresh.player_name)
    IN  /\ agent = "improv"
        /\ call' = [op |-> "restart_game", arg |-> None]
        /\ improv_state' = st
        /\ emitted' = SendImprovUpdate(fresh) \o SendImprovUpdate(st)
        /\ ret' = "welcome_to_improv_battle"
        /\ UNCHANGED improvFrame

\* what the host is told: a name or none, the reaction to a scene
PlayerNames == {None, Some(<<"a">>)}
Reactions == {<<"a">>}

ImprovNext ==
    \/ \E player_name \in PlayerNames : start_improv_battle(player_name)
    \/ \E name \in {<<"A">>} : set_player_name(name)
    \/ \E scenario \in Scenarios : start_next_round(scenario)
    \/ \E reaction \in Reactions : react_to_performance(reaction)
    \/ end_show
    \/ handle_early_exit
    \/ get_game_status
    \/ restart_game

ImprovSession ==
    /\ agent = "improv"
    /\ room = FALSE
    /\ call = [op |-> "__init__", arg |-> None]
    /\ ret = "None"
    /\ emitted = <<>>
    /\ fraud_case = None /\ case_loaded = FALSE /\ fraud_cases_file = None
    /\ cart = None /\ orders_dir = None
    /\ wellness_state = None /\ wellness_log_file = None
    /\ lead_state = None /\ leads_file = None
    /\ sessions = None
    /\ publish_raises = FALSE
    /\ story_state = None
    /\ cart_items = None /\ order_manager = None
    /\ TutorIdle
    /\ improv_state = ImprovState(None)

ImprovTools == set_room \/ ImprovNext
SpecImprov == ImprovSession /\ [][ImprovTools]_vars

----------------------------------------------------------------------------
(* Properties of the fraud agent's guards *)

\* C34: verify_customer_identity invoked while no case is loaded returns the
\* load-first prompt and changes neither the in-memory fraud case
\* (verification_passed, status, outcome and the rest) nor the store, and
\* publishes nothing.
C34_VerifyNeedsLoadedCase ==
    [][(call'.op = "verify_customer_identity" /\ ~case_loaded)
        => /\ ret' = "load_first"
           /\ fraud_case' = fraud_case
           /\ fraud_cases_file' = fraud_cases_file
           /\ ~case_loaded'
           /\ emitted' = <<>>]_vars

\* an answer was given in a room before any case was loaded
C34_Witness ==
    /\ call = [op |-> "verify_customer_identity", arg |-> <<"a">>]
    /\ ret = "load_first"
    /\ room
    /\ ~case_loaded
    /\ fraud_case.user_name = None
    /\ ~fraud_case.verification_passed

\* C35: load_fraud_case_by_username selects the first store entry whose
\* userName equals the given name up to case; when no entry matches,
\* case_loaded, every field of the in-memory fraud case and the store are
\* unchanged and the caller is told that the name was not found.
C35_LoadSelectsFirstMatch ==
    [][call'.op = "load_fraud_case_by_username" =>
        LET cases == fraud_cases_file.cases
            hits == {i \in 1..Len(cases) : IsLowerCased(Lower(call'.arg), cases[i].userName)}
        IN  /\ hits = {}
                 => /\ ret' = "not_found"
                    /\ fraud_case' = fraud_case
                    /\ case_loaded' = case_loaded
                    /\ fraud_cases_file' = fraud_cases_file
            /\ hits # {}
                 => \E i \in hits :
                       /\ \A j \in hits : i <= j
                       /\ ret' = "case_pulled_up"
                       /\ case_loaded'
                       /\ fraud_case'.user_name = Some(cases[i].userName)
                       /\ fraud_case'.card_ending = Some(cases[i].cardEnding)
                       /\ fraud_case'.security_answer = Some(cases[i].securityAnswer)]_vars

\* "A" was asked for and the case of "a", the first of the two, was loaded
C35_Witness ==
    /\ call = [op |-> "load_fraud_case_by_username", arg |-> <<"A">>]
    /\ ret = "case_pulled_up"
    /\ fraud_case.user_name = Some(<<"a">>)
    /\ fraud_case.card_ending = Some(1)
    /\ fraud_cases_file.cases[2].userName = <<"A">>

----------------------------------------------------------------------------
(* Completion signals *)

CompletionEvents == {"checkin_complete", "call_complete", "order_complete"}

\* the message is a state update whose data carry a completion flag that is set
CarriesFlag(msg) ==
    \/ msg.type = "cart_update" /\ msg.data.order_complete
    \/ msg.type = "wellness_update" /\ msg.data.check_in_complete
    \/ msg.type = "lead_update" /\ msg.data.call_complete

\* the completion flag of the session's record is set
FlagSet ==
    \/ agent = "food" /\ cart.order_complete
    \/ agent = "wellness" /\ wellness_state.check_in_complete
    \/ agent = "sdr" /\ lead_state.call_complete

\* the step wrote the store of the session's agent: one more order file, or a
\* log document that parses and ends with a new entry
StoreWritten ==
    CASE agent = "food" -> Len(orders_dir'.files) = Len(orders_dir.files) + 1
      [] agent = "wellness" ->
            /\ wellness_log_file'.kind = "ok"
            /\ Len(wellness_log_file'.entries) = Len(LoadLog(wellness_log_file).entries) + 1
      [] agent = "sdr" ->
            /\ leads_file'.kind = "ok"
            /\ Len(leads_file'.entries) = Len(LoadLog(leads_file).entries) + 1
      [] OTHER -> FALSE

\* C38: check_in_complete and call_complete become true, a state update
\* first carries a completion flag (order_complete included), and a
\* checkin_complete / call_complete / order_complete event is published, only
\* in a call of the completing tool whose store write succeeded; and in such
\* a call the event is published before the flag-carrying update.
C38_CompletionAfterWrite ==
    [][/\ (agent = "wellness" /\ wellness_state'.check_in_complete
                              /\ ~wellness_state.check_in_complete)
          => call'.op = "complete_checkin" /\ StoreWritten
       /\ (agent = "sdr" /\ lead_state'.call_complete /\ ~lead_state.call_complete)
          => call'.op = "complete_call_and_save_lead" /\ StoreWritten
       /\ \A i \in 1..Len(emitted') :
            /\ emitted'[i].type \in CompletionEvents
                 => /\ call'.op \in {"complete_checkin", "complete_call_and_save_lead",
                                     "complete_order"}
                    /\ StoreWritten
                    /\ \E j \in (i + 1)..Len(emitted') : CarriesFlag(emitted'[j])
            /\ (CarriesFlag(emitted'[i]) /\ ~FlagSet)
                 => /\ call'.op \in {"complete_checkin", "complete_call_and_save_lead",
                                     "complete_order"}
                    /\ StoreWritten
                    /\ \E j \in 1..(i - 1) : emitted'[j].type \in CompletionEvents]_vars

\* a check-in was saved in a room: the event, then the update with the flag
C38_Witness ==
    /\ call.op = "complete_checkin"
    /\ ret = "recap_saved"
    /\ room
    /\ Len(emitted) = 2
    /\ emitted[1].type = "checkin_complete"
    /\ CarriesFlag(emitted[2])
    /\ wellness_state.check_in_complete
    /\ wellness_log_file.kind = "ok"

----------------------------------------------------------------------------
(* The frontend's view of the record *)

\* the update of the session's record as _send_*_update would publish it now
CurrentView ==
    CASE agent = "food" -> [type |-> "cart_update", data |-> CartToDict(cart)]
      [] agent = "wellness" -> [type |-> "wellness_update", data |-> wellness_state]
      [] agent = "sdr" -> [type |-> "lead_update", data |-> lead_state]

\* C37: with a room attached and publishes succeeding, a tool call that
\* mutated the session's record (cart, wellness state or lead state) has
\* published messages, and the last of them is the update of the record as
\* it is in memory when the call returns.
C37_LastUpdateIsCurrent ==
    [][(/\ agent \in {"food", "wellness", "sdr"}
        /\ room /\ ~publish_raises
        /\ <<cart, wellness_state, lead_state>>' # <<cart, wellness_state, lead_state>>)
        => /\ emitted' # <<>>
           /\ emitted'[Len(emitted')] = CurrentView']_vars

----------------------------------------------------------------------------
(* Properties of the tutor coordinator *)

\* C31: in a session in which no ask_question_about_concept has succeeded,
\* evaluate_answer returns the corrective prompt, publishes no score update
\* and changes nothing, whatever mode switches, explain_concept or
\* request_explanation calls came before.
C31_EvaluateNeedsQuestion ==
    [][call'.op = "evaluate_answer"
        => /\ ret' = "havent_asked_a_question"
           /\ emitted' = <<>>
           /\ UNCHANGED tutorVars]_vars

KeywordsOf(key_points, concept_id) ==
    IF concept_id \in DOMAIN key_points
    THEN {key_points[concept_id][i] : i \in 1..Len(key_points[concept_id])}
    ELSE {}

\* the keywords of the concept that occur in the lower-cased text
Covered(key_points, concept_id, text) ==
    {keyword \in KeywordsOf(key_points, concept_id) : Contains(keyword, Lower(text))}

\* the tier of matched keywords out of total (0 out of 0: the lowest), with
\* thresholds hi and lo given in hundredths
TierOf(matched, total, hi, lo, tiers) ==
    IF total > 0 /\ 100 * matched >= hi * total THEN tiers[1]
    ELSE IF total > 0 /\ 100 * matched >= lo * total THEN tiers[2]
    ELSE tiers[3]

\* C32: the feedback of evaluate_answer and provide_feedback is the tier of
\* the keyword coverage of the current concept: evaluate_answer answers
\* excellent from 0.5, good start from 0.25 and asks for more below that,
\* provide_feedback does the same at 0.7 and 0.4, a concept without an entry
\* in the keyword table gets the lowest tier, and the published score is
\* matched / total (0 for a concept without an entry).
C32_FeedbackTierByCoverage ==
    [][/\ (call'.op = "evaluate_answer" /\ current_concept # None)
          => LET id == current_concept[1].id
                 matched == Cardinality(Covered(QuizKeyPoints, id, call'.arg))
                 total == Cardinality(KeywordsOf(QuizKeyPoints, id))
             IN  /\ ret' = TierOf(matched, total, 50, 25,
                                  <<"excellent_answer", "good_start", "good_attempt">>)
                 /\ room => /\ Len(emitted') = 1
                            /\ emitted'[1].data.score =
                                 Some(IF total = 0 THEN <<0, 1>> ELSE <<matched, total>>)
       /\ (call'.op = "provide_feedback" /\ current_concept # None)
          => LET id == current_concept[1].id
                 matched == Cardinality(Covered(TeachBackKeyPoints, id, call'.arg))
                 total == Cardinality(KeywordsOf(TeachBackKeyPoints, id))
             IN  /\ ret' = TierOf(matched, total, 70, 40,
                                  <<"excellent_job", "good_explanation", "thinking_about">>)
                 /\ room => /\ Len(emitted') = 1
                            /\ emitted'[1].data.score =
                                 Some(IF total = 0 THEN <<0, 1>> ELSE <<matched, total>>)]_vars

\* three of the five keywords of "variables" were answered: excellent for the
\* quiz
C32_Witness ==
    /\ call.op = "evaluate_answer"
    /\ current_concept = Some([id |-> "variables"])
    /\ ret = "excellent_answer"
    /\ room
    /\ emitted # <<>>
    /\ emitted[1].data.score = Some(<<3, 5>>)

SwitchTools ==
    [switch_to_learn_mode |-> "learn", switch_to_quiz_mode |-> "quiz",
     switch_to_teach_back_mode |-> "teach_back"]

\* C33: a switch_to_*_mode call sets current_mode to its mode and leaves
\* current_concept (and the loaded content) as it was, and current_mode is
\* always one of coordinator, learn, quiz and teach_back.
C33_SwitchChangesModeOnly ==
    /\ [](current_mode \in {"coordinator", "learn", "quiz", "teach_back"})
    /\ [][call'.op \in DOMAIN SwitchTools
            => /\ current_mode' = SwitchTools[call'.op]
               /\ current_concept' = current_concept
               /\ tutor_content' = tutor_content]_vars

\* the quiz mode was chosen while "loops" was the current concept
C33_Witness ==
    /\ call.op = "switch_to_quiz_mode"
    /\ current_mode = "quiz"
    /\ current_concept = Some([id |-> "loops"])

\* C40: every mode_change event a call publishes carries previous_mode equal
\* to new_mode, both being the mode the call left; when the call changed the
\* mode, the event does not name the mode that was current before.
C40_PreviousModeIsNewMode ==
    [][\A i \in 1..Len(emitted') :
          emitted'[i].type = "mode_change"
            => /\ emitted'[i].previous_mode = emitted'[i].new_mode
               /\ emitted'[i].new_mode = current_mode'
               /\ current_mode' # current_mode
                    => emitted'[i].previous_mode # current_mode]_vars

\* a switch to teach-back was announced as a change from teach-back
C40_Witness ==
    /\ call.op = "switch_to_teach_back_mode"
    /\ room
    /\ Len(emitted) = 1
    /\ emitted[1].type = "mode_change"
    /\ emitted[1].new_mode = "teach_back"
    /\ emitted[1].previous_mode = "teach_back"

ConceptTools == {"explain_concept", "ask_question_about_concept", "request_explanation"}

\* C36: a tutor constructed on a content file that is missing or does not
\* hold a list of concepts has an empty list of concepts, and with an empty
\* list every concept operation reports that the concept is not known,
\* publishes nothing and leaves the tutor state unchanged.
C36_BadContentLoadsEmpty ==
    /\ [](tutor_content.content_file.kind # "list"
            => tutor_content.concepts = [type |-> "list", items |-> <<>>])
    /\ [][(/\ tutor_content.content_file.kind # "list"
            /\ call'.op \in ConceptTools)
            => /\ ret' \in {"no_information_about", "no_quiz_questions_about"}
               /\ emitted' = <<>>
               /\ UNCHANGED tutorVars]_vars

----------------------------------------------------------------------------
(* Properties of the improv host *)

\* C39: the improv host never counts more rounds than max_rounds and holds
\* one entry in rounds per round counted; start_next_round called when
\* current_round has reached max_rounds adds no round and sets the phase to
\* done; restart_game sets the counter to zero, empties rounds and keeps the
\* player name.
C39_RoundsBounded ==
    /\ [](/\ improv_state.current_round <= improv_state.max_rounds
          /\ Len(improv_state.rounds) = improv_state.current_round)
    /\ [][/\ (call'.op = "start_next_round"
              /\ improv_state.current_round = improv_state.max_rounds)
             => /\ improv_state'.rounds = improv_state.rounds
                /\ improv_state'.current_round = improv_state.current_round
                /\ improv_state'.phase = "done"
          /\ call'.op = "restart_game"
             => /\ improv_state'.current_round = 0
                /\ improv_state'.rounds = <<>>
                /\ improv_state'.player_name = improv_state.player_name]_vars

\* a fourth round was asked for after three were played
C39_Witness ==
    /\ call.op = "start_next_round"
    /\ ret = "closing_summary"
    /\ improv_state.current_round = 3
    /\ Len(improv_state.rounds) = 3
    /\ improv_state.phase = "done"
    /\ improv_state.player_name = Some(<<"A">>)

====
